---- MODULE Spec2Model ----
(***************************************************************************)
(* A model of the Leverr language core (drothschild/leverr).               *)
(*                                                                         *)
(* The tree-walking evaluator (evaluate / evalExpr / applyFn and the       *)
(* curried built-in library) is modelled as an abstract machine: the       *)
(* JavaScript call stack of evalExpr is the sequence `stack` of frames,    *)
(* a JavaScript `throw` is a machine mode that pops frames one at a time,  *)
(* and the objects the code mutates or copies (environment Maps, closure   *)
(* objects, built-in objects) live in heaps indexed by allocation order.   *)
(* The Pratt parser, the lexer, the unifier and the type inferencer are    *)
(* modelled as recursive operators, over token sequences, character        *)
(* sequences, types and expression trees; a JavaScript throw of theirs is  *)
(* a result with ok = FALSE.                                               *)
(***************************************************************************)
EXTENDS Integers, Sequences, FiniteSets, TLC

(***************************************************************************)
(* Runtime values (values.ts, type Value).  Closures and built-ins are     *)
(* JavaScript objects with identity: they are references into a heap.      *)
(***************************************************************************)
IntV(n) == [kind |-> "Int", value |-> n]

StringV(s) == [kind |-> "String", value |-> s]

BoolV(b) == [kind |-> "Bool", value |-> b]

UnitV == [kind |-> "Unit"]

ListV(es) == [kind |-> "List", elements |-> es]

TagV(t, as) == [kind |-> "Tag", tag |-> t, args |-> as]

ClosureV(r) == [kind |-> "Closure", ref |-> r]

BuiltinV(r) == [kind |-> "BuiltinFn", ref |-> r]

(***************************************************************************)
(* Expression tree and patterns (ast.ts).                                  *)
(***************************************************************************)
IntLit(n) == [kind |-> "IntLit", value |-> n]

StringLit(s) == [kind |-> "StringLit", value |-> s]

BoolLit(b) == [kind |-> "BoolLit", value |-> b]

UnitLit == [kind |-> "UnitLit"]

Ident(n) == [kind |-> "Ident", name |-> n]

BinOp(o, l, r) == [kind |-> "BinOp", op |-> o, left |-> l, right |-> r]

Let(n, v, b) == [kind |-> "Let", name |-> n, value |-> v, body |-> b, rec |-> FALSE]

LetRec(n, v, b) == [kind |-> "Let", name |-> n, value |-> v, body |-> b, rec |-> TRUE]

Fn(p, b) == [kind |-> "Fn", param |-> p, body |-> b]

Call(f, a) == [kind |-> "Call", fn |-> f, arg |-> a]

Match(s, cs) == [kind |-> "Match", subject |-> s, cases |-> cs]

Case(p, b) == [pattern |-> p, body |-> b]

Try(e) == [kind |-> "Try", expr |-> e]

Catch(e, n, f) == [kind |-> "Catch", expr |-> e, errorName |-> n, fallback |-> f]

Pipe(l, r) == [kind |-> "Pipe", left |-> l, right |-> r]

ListE(es) == [kind |-> "List", elements |-> es]

Tag(t, as) == [kind |-> "Tag", tag |-> t, args |-> as]

If(c, t, e) == [kind |-> "If", cond |-> c, then |-> t, else_ |-> e]

IntPat(n) == [kind |-> "IntPat", value |-> n]

StringPat(s) == [kind |-> "StringPat", value |-> s]

BoolPat(b) == [kind |-> "BoolPat", value |-> b]

WildcardPat == [kind |-> "WildcardPat"]

IdentPat(n) == [kind |-> "IdentPat", name |-> n]

TagPat(t, as) == [kind |-> "TagPat", tag |-> t, args |-> as]

(***************************************************************************)
(* Environment Maps: a Map<string, Value> is a function whose domain is    *)
(* the set of its keys.                                                    *)
(***************************************************************************)
EmptyMap == [k \in {} |-> UnitV]

MapSet(m, k, v) == [x \in (DOMAIN m) \cup {k} |-> IF x = k THEN v ELSE m[x]]

RECURSIVE MapSetAll(_, _)
MapSetAll(m, kvs) ==
  IF kvs = <<>> THEN m
  ELSE MapSetAll(MapSet(m, Head(kvs)[1], Head(kvs)[2]), Tail(kvs))

IsOk1(v) == v.kind = "Tag" /\ v.tag = "Ok" /\ Len(v.args) = 1

IsErr(v) == v.kind = "Tag" /\ v.tag = "Err"

IsErr1(v) == v.kind = "Tag" /\ v.tag = "Err" /\ Len(v.args) >= 1

(***************************************************************************)
(* The parser (parser.ts).  A token is [kind, lexeme]; spans are left out. *)
(* Every parsing method is an operator from (tokens, position) to          *)
(* [ok |-> TRUE, expr, pos] or, when the method throws, [ok |-> FALSE, pos]*)
(* with the position of the offending token.                               *)
(***************************************************************************)
FloatLit(x) == [kind |-> "FloatLit", value |-> x]

UnaryOp(o, e) == [kind |-> "UnaryOp", op |-> o, expr |-> e]

Tuple(es) == [kind |-> "Tuple", elements |-> es]

Record(fs) == [kind |-> "Record", fields |-> fs]

FieldAccess(e, f) == [kind |-> "FieldAccess", expr |-> e, field |-> f]

FloatPat(x) == [kind |-> "FloatPat", value |-> x]

TuplePat(ps) == [kind |-> "TuplePat", elements |-> ps]

Tok(k, lx) == [kind |-> k, lexeme |-> lx]

Ok(e, pos) == [ok |-> TRUE, expr |-> e, pos |-> pos]

Fail(pos) == [ok |-> FALSE, pos |-> pos]

\* this.peek().kind; past the end of the array there is no token.
KindAt(toks, pos) == IF pos \in DOMAIN toks THEN toks[pos].kind ELSE "<undefined>"

PREFIX_BP == 80

POSTFIX_BP == 90

\* parse and the delimited forms ask for an expression at binding power 0.
TopBp == 0

\* Variant: the lambda body is parsed like every other sub-expression.
FnBodyBpTop == TopBp

\* parseFn asks for the lambda body at binding power 6.
FnBodyBp == 6

\* Variant: the fallback of a recovery binder stops before a pipe, as a
\* lambda body does.
CatchFallbackBpPipe == FnBodyBp

\* nud, case Catch: the fallback is parsed by parseExpr(0).
CatchFallbackBp == 0

NoBp == <<-1, -1>>

\* Variant: additive operators read their right operand at their own level.
infixBpSameLevel(kind) ==
  CASE kind = "Pipe" -> <<5, 6>>
    [] kind = "PipePipe" -> <<10, 11>>
    [] kind = "AmpAmp" -> <<20, 21>>
    [] kind \in {"EqEq", "BangEq"} -> <<30, 31>>
    [] kind \in {"Lt", "Gt", "LtEq", "GtEq"} -> <<40, 41>>
    [] kind = "PlusPlus" -> <<50, 51>>
    [] kind \in {"Plus", "Minus"} -> <<60, 60>>
    [] kind \in {"Star", "Slash", "Percent"} -> <<70, 71>>
    [] kind = "Dot" -> <<95, 96>>
    [] OTHER -> NoBp

\* infixBp: <<left, right>> binding power, NoBp for null.
infixBp(kind) ==
  CASE kind = "Pipe" -> <<5, 6>>
    [] kind = "PipePipe" -> <<10, 11>>
    [] kind = "AmpAmp" -> <<20, 21>>
    [] kind \in {"EqEq", "BangEq"} -> <<30, 31>>
    [] kind \in {"Lt", "Gt", "LtEq", "GtEq"} -> <<40, 41>>
    [] kind = "PlusPlus" -> <<50, 51>>
    [] kind \in {"Plus", "Minus"} -> <<60, 61>>
    [] kind \in {"Star", "Slash", "Percent"} -> <<70, 71>>
    [] kind = "Dot" -> <<95, 96>>
    [] OTHER -> NoBp

tokenToOp(kind) ==
  CASE kind = "Plus" -> "+"
    [] kind = "Minus" -> "-"
    [] kind = "Star" -> "*"
    [] kind = "Slash" -> "/"
    [] kind = "Percent" -> "%"
    [] kind = "PlusPlus" -> "++"
    [] kind = "EqEq" -> "=="
    [] kind = "BangEq" -> "!="
    [] kind = "Lt" -> "<"
    [] kind = "Gt" -> ">"
    [] kind = "LtEq" -> "<="
    [] kind = "GtEq" -> ">="
    [] kind = "AmpAmp" -> "&&"
    [] kind = "PipePipe" -> "||"

\* parseInt(lexeme, 10), parseFloat(lexeme) and lexeme.slice(1, -1) on the
\* lexemes the inputs use.
ParseNumber(lexeme) ==
  CASE lexeme = "0" -> 0
    [] lexeme = "1" -> 1
    [] lexeme = "2" -> 2
    [] lexeme = "3" -> 3
    [] lexeme = "10" -> 10
    [] lexeme = "1.0" -> 1
    [] OTHER -> 7

StripQuotes(lexeme) ==
  CASE lexeme = "\"a\"" -> "a"
    [] lexeme = "\"\"" -> ""
    [] OTHER -> "s"

\* A throw inside a call leaves the caller at once: the failure is the
\* caller's result, otherwise the caller goes on with what was returned.
Bind(r, K(_)) == IF r.ok THEN K(r) ELSE r

\* expect(kind): the token (as expr) and the position after it, or a throw.
expect(toks, pos, kind) ==
  IF KindAt(toks, pos) = kind THEN Ok(toks[pos], pos + 1) ELSE Fail(pos)

RECURSIVE parseExpr(_, _, _)
RECURSIVE infixLoop(_, _, _, _)
RECURSIVE nud(_, _)
RECURSIVE led(_, _, _, _)
RECURSIVE exprList(_, _, _)
RECURSIVE callLoop(_, _, _)
RECURSIVE parseCallArgs(_, _, _)
RECURSIVE parseLet(_, _)
RECURSIVE parseFn(_, _)
RECURSIVE parseMatch(_, _)
RECURSIVE matchCases(_, _, _)
RECURSIVE parseMatchCase(_, _)
RECURSIVE parsePattern(_, _)
RECURSIVE patternList(_, _, _)
RECURSIVE recordFields(_, _, _)
RECURSIVE paramList(_, _, _)

\* The while loop of parseExpr after the prefix form.
infixLoop(toks, left, pos, minBp) ==
  IF KindAt(toks, pos) = "Question" /\ POSTFIX_BP >= minBp
  THEN infixLoop(toks, Try(left), pos + 1, minBp)
  ELSE LET bp == infixBp(KindAt(toks, pos)) IN
       IF bp = NoBp \/ bp[1] < minBp THEN Ok(left, pos)
       ELSE Bind(led(toks, left, pos, bp), LAMBDA r :
            infixLoop(toks, r.expr, r.pos, minBp))

parseExpr(toks, pos, minBp) ==
  Bind(nud(toks, pos), LAMBDA l : infixLoop(toks, l.expr, l.pos, minBp))

\* push(parseExpr(0)); while (eat(Comma)) push(parseExpr(0))
exprList(toks, pos, acc) ==
  Bind(parseExpr(toks, pos, TopBp), LAMBDA e :
  IF KindAt(toks, e.pos) = "Comma"
  THEN exprList(toks, e.pos + 1, Append(acc, e.expr))
  ELSE Ok(Append(acc, e.expr), e.pos))

RECURSIVE NestCallsUnit(_, _)
RECURSIVE NestCalls(_, _)
\* Variant: a call without arguments applies the function to unit.
NestCallsUnit(fn, args) ==
  IF args = <<>> THEN Call(fn, UnitLit)
  ELSE IF Len(args) = 1 THEN Call(fn, Head(args))
  ELSE NestCallsUnit(Call(fn, Head(args)), Tail(args))

NestCalls(fn, args) ==
  IF args = <<>> THEN fn
  ELSE NestCalls(Call(fn, Head(args)), Tail(args))

\* pos is at the LParen.
parseCallArgs(toks, fn, pos) ==
  Bind(expect(toks, pos, "LParen"), LAMBDA lp :
  Bind(IF KindAt(toks, lp.pos) = "RParen" THEN Ok(<<>>, lp.pos)
       ELSE exprList(toks, lp.pos, <<>>), LAMBDA args :
  Bind(expect(toks, args.pos, "RParen"), LAMBDA rp :
  Ok(NestCalls(fn, args.expr), rp.pos))))

\* while (this.at(LParen)) expr = this.parseCallArgs(expr)
callLoop(toks, expr, pos) ==
  IF KindAt(toks, pos) # "LParen" THEN Ok(expr, pos)
  ELSE Bind(parseCallArgs(toks, expr, pos), LAMBDA c : callLoop(toks, c.expr, c.pos))

\* pos is at the Let token.
parseLet(toks, pos) ==
  LET rec == KindAt(toks, pos + 1) = "Rec" IN
  Bind(expect(toks, IF rec THEN pos + 2 ELSE pos + 1, "Ident"), LAMBDA name :
  Bind(expect(toks, name.pos, "Eq"), LAMBDA eq :
  Bind(parseExpr(toks, eq.pos, TopBp), LAMBDA value :
  Bind(expect(toks, value.pos, "In"), LAMBDA in :
  Bind(parseExpr(toks, in.pos, TopBp), LAMBDA body :
  Ok([kind |-> "Let", name |-> name.expr.lexeme, value |-> value.expr,
      body |-> body.expr, rec |-> rec], body.pos))))))

\* push(expect(Ident)); while (eat(Comma)) push(expect(Ident))
paramList(toks, pos, acc) ==
  Bind(expect(toks, pos, "Ident"), LAMBDA name :
  IF KindAt(toks, name.pos) = "Comma"
  THEN paramList(toks, name.pos + 1, Append(acc, name.expr.lexeme))
  ELSE Ok(Append(acc, name.expr.lexeme), name.pos))

RECURSIVE NestFns(_, _)
NestFns(params, body) ==
  IF params = <<>> THEN body
  ELSE Fn(Head(params), NestFns(Tail(params), body))

\* The parameters of a lambda: (a, b), () or a single name.
fnParams(toks, pos) ==
  IF KindAt(toks, pos) = "LParen"
  THEN Bind(IF KindAt(toks, pos + 1) = "RParen" THEN Ok(<<>>, pos + 1)
            ELSE paramList(toks, pos + 1, <<>>), LAMBDA ps :
       Bind(expect(toks, ps.pos, "RParen"), LAMBDA rp : Ok(ps.expr, rp.pos)))
  ELSE Bind(expect(toks, pos, "Ident"), LAMBDA name :
       Ok(<<name.expr.lexeme>>, name.pos))

\* pos is at the Fn token.
parseFn(toks, pos) ==
  Bind(fnParams(toks, pos + 1), LAMBDA params :
  Bind(expect(toks, params.pos, "Arrow"), LAMBDA arrow :
  Bind(parseExpr(toks, arrow.pos, FnBodyBp), LAMBDA body :
  Ok(IF params.expr = <<>> THEN Fn("_", body.expr)
     ELSE NestFns(params.expr, body.expr),
     body.pos))))

\* push(parsePattern()); while (eat(Comma)) push(parsePattern())
patternList(toks, pos, acc) ==
  Bind(parsePattern(toks, pos), LAMBDA q :
  IF KindAt(toks, q.pos) = "Comma"
  THEN patternList(toks, q.pos + 1, Append(acc, q.expr))
  ELSE Ok(Append(acc, q.expr), q.pos))

parsePattern(toks, pos) ==
  LET k == KindAt(toks, pos) IN
  CASE k = "Int" -> Ok(IntPat(ParseNumber(toks[pos].lexeme)), pos + 1)
    [] k = "Float" -> Ok(FloatPat(ParseNumber(toks[pos].lexeme)), pos + 1)
    [] k = "String" -> Ok(StringPat(StripQuotes(toks[pos].lexeme)), pos + 1)
    [] k = "True" -> Ok(BoolPat(TRUE), pos + 1)
    [] k = "False" -> Ok(BoolPat(FALSE), pos + 1)
    [] k = "Underscore" -> Ok(WildcardPat, pos + 1)
    [] k = "LParen" ->
         Bind(parsePattern(toks, pos + 1), LAMBDA first :
         IF KindAt(toks, first.pos) = "Comma"
         THEN Bind(patternList(toks, first.pos + 1, <<first.expr>>), LAMBDA more :
              Bind(expect(toks, more.pos, "RParen"), LAMBDA rp :
              Ok(TuplePat(more.expr), rp.pos)))
         ELSE Bind(expect(toks, first.pos, "RParen"), LAMBDA rp :
              Ok(first.expr, rp.pos)))
    [] k = "UpperIdent" ->
         IF KindAt(toks, pos + 1) # "LParen" THEN Ok(TagPat(toks[pos].lexeme, <<>>), pos + 1)
         ELSE Bind(IF KindAt(toks, pos + 2) = "RParen" THEN Ok(<<>>, pos + 2)
                   ELSE patternList(toks, pos + 2, <<>>), LAMBDA args :
              Bind(expect(toks, args.pos, "RParen"), LAMBDA rp :
              Ok(TagPat(toks[pos].lexeme, args.expr), rp.pos)))
    [] k = "Ident" -> Ok(IdentPat(toks[pos].lexeme), pos + 1)
    [] OTHER -> Fail(pos)

parseMatchCase(toks, pos) ==
  Bind(parsePattern(toks, pos), LAMBDA q :
  Bind(expect(toks, q.pos, "Arrow"), LAMBDA arrow :
  Bind(parseExpr(toks, arrow.pos, TopBp), LAMBDA b :
  Ok(Case(q.expr, b.expr), b.pos))))

\* push(parseMatchCase()); while (eat(Comma)) { if (at(RBrace)) break; push(...) }
matchCases(toks, pos, acc) ==
  Bind(parseMatchCase(toks, pos), LAMBDA c :
  IF KindAt(toks, c.pos) # "Comma" THEN Ok(Append(acc, c.expr), c.pos)
  ELSE IF KindAt(toks, c.pos + 1) = "RBrace" THEN Ok(Append(acc, c.expr), c.pos + 1)
  ELSE matchCases(toks, c.pos + 1, Append(acc, c.expr)))

\* pos is at the Match token.
parseMatch(toks, pos) ==
  Bind(parseExpr(toks, pos + 1, TopBp), LAMBDA subject :
  Bind(expect(toks, subject.pos, "LBrace"), LAMBDA lb :
  Bind(IF KindAt(toks, lb.pos) = "RBrace" THEN Ok(<<>>, lb.pos)
       ELSE matchCases(toks, lb.pos, <<>>), LAMBDA cases :
  Bind(expect(toks, cases.pos, "RBrace"), LAMBDA rb :
  Ok(Match(subject.expr, cases.expr), rb.pos)))))

\* name: value pairs of a record literal; a trailing comma is allowed.
recordFields(toks, pos, acc) ==
  Bind(expect(toks, pos, "Ident"), LAMBDA name :
  Bind(expect(toks, name.pos, "Colon"), LAMBDA colon :
  Bind(parseExpr(toks, colon.pos, TopBp), LAMBDA v :
  IF KindAt(toks, v.pos) # "Comma"
  THEN Ok(Append(acc, [name |-> name.expr.lexeme, value |-> v.expr]), v.pos)
  ELSE IF KindAt(toks, v.pos + 1) = "RBrace"
  THEN Ok(Append(acc, [name |-> name.expr.lexeme, value |-> v.expr]), v.pos + 1)
  ELSE recordFields(toks, v.pos + 1,
                    Append(acc, [name |-> name.expr.lexeme, value |-> v.expr])))))

nud(toks, pos) ==
  LET k == KindAt(toks, pos) IN
  CASE k = "Int" -> Ok(IntLit(ParseNumber(toks[pos].lexeme)), pos + 1)
    [] k = "Float" -> Ok(FloatLit(ParseNumber(toks[pos].lexeme)), pos + 1)
    [] k = "String" -> Ok(StringLit(StripQuotes(toks[pos].lexeme)), pos + 1)
    [] k = "True" -> Ok(BoolLit(TRUE), pos + 1)
    [] k = "False" -> Ok(BoolLit(FALSE), pos + 1)
    [] k = "Ident" -> callLoop(toks, Ident(toks[pos].lexeme), pos + 1)
    [] k = "Let" -> parseLet(toks, pos)
    [] k = "Fn" -> parseFn(toks, pos)
    [] k = "Match" -> parseMatch(toks, pos)
    [] k = "LBracket" ->
         Bind(IF KindAt(toks, pos + 1) = "RBracket" THEN Ok(<<>>, pos + 1)
              ELSE exprList(toks, pos + 1, <<>>), LAMBDA es :
         Bind(expect(toks, es.pos, "RBracket"), LAMBDA rb :
         Ok(ListE(es.expr), rb.pos)))
    [] k = "Catch" ->
         Bind(expect(toks, pos + 1, "Ident"), LAMBDA errorName :
         Bind(expect(toks, errorName.pos, "Arrow"), LAMBDA arrow :
         Bind(parseExpr(toks, arrow.pos, CatchFallbackBp), LAMBDA fallback :
         Ok(Catch(UnitLit, errorName.expr.lexeme, fallback.expr), fallback.pos))))
    [] k = "Bang" ->
         Bind(parseExpr(toks, pos + 1, PREFIX_BP), LAMBDA e :
         Ok(UnaryOp("!", e.expr), e.pos))
    [] k = "Minus" ->
         Bind(parseExpr(toks, pos + 1, PREFIX_BP), LAMBDA e :
         Ok(UnaryOp("-", e.expr), e.pos))
    [] k = "LParen" ->
         IF KindAt(toks, pos + 1) = "RParen" THEN Ok(UnitLit, pos + 2)
         ELSE Bind(parseExpr(toks, pos + 1, TopBp), LAMBDA first :
              IF KindAt(toks, first.pos) = "Comma"
              THEN Bind(exprList(toks, first.pos + 1, <<first.expr>>), LAMBDA more :
                   Bind(expect(toks, more.pos, "RParen"), LAMBDA rp :
                   Ok(Tuple(more.expr), rp.pos)))
              ELSE Bind(expect(toks, first.pos, "RParen"), LAMBDA rp :
                   Ok(first.expr, rp.pos)))
    [] k = "LBrace" ->
         Bind(IF KindAt(toks, pos + 1) = "RBrace" THEN Ok(<<>>, pos + 1)
              ELSE recordFields(toks, pos + 1, <<>>), LAMBDA fs :
         Bind(expect(toks, fs.pos, "RBrace"), LAMBDA rb :
         Ok(Record(fs.expr), rb.pos)))
    [] k = "UpperIdent" ->
         IF KindAt(toks, pos + 1) # "LParen" THEN Ok(Tag(toks[pos].lexeme, <<>>), pos + 1)
         ELSE Bind(IF KindAt(toks, pos + 2) = "RParen" THEN Ok(<<>>, pos + 2)
                   ELSE exprList(toks, pos + 2, <<>>), LAMBDA args :
              Bind(expect(toks, args.pos, "RParen"), LAMBDA rp :
              Ok(Tag(toks[pos].lexeme, args.expr), rp.pos)))
    [] OTHER -> Fail(pos)

\* pos is at the operator token, bp its binding powers.
led(toks, left, pos, bp) ==
  IF KindAt(toks, pos) = "Dot"
  THEN Bind(expect(toks, pos + 1, "Ident"), LAMBDA field :
       Ok(FieldAccess(left, field.expr.lexeme), field.pos))
  ELSE Bind(parseExpr(toks, pos + 1, bp[2]), LAMBDA right :
       IF KindAt(toks, pos) = "Pipe" THEN Ok(Pipe(left, right.expr), right.pos)
       ELSE Ok(BinOp(tokenToOp(KindAt(toks, pos)), left, right.expr), right.pos))

\* Variant: the tree is returned without looking for the sentinel.
parseNoSentinel(toks) ==
  parseExpr(toks, 1, TopBp)

\* parse: parseExpr(0), then expect(EOF).
parse(toks) ==
  Bind(parseExpr(toks, 1, TopBp), LAMBDA e :
  Bind(expect(toks, e.pos, "EOF"), LAMBDA eof : Ok(e.expr, eof.pos)))

(***************************************************************************)
(* The lexer (lexer.ts).  A source is a sequence of characters, a lexeme   *)
(* the sequence of the characters it was read from; positions are the      *)
(* code's offsets plus one.  lex gives [ok |-> TRUE, tokens] or, when it   *)
(* throws, [ok |-> FALSE, pos].                                            *)
(***************************************************************************)
Digits == {"0", "1", "2", "3", "4", "5", "6", "7", "8", "9"}

UpperLetters ==
  {"A", "B", "C", "D", "E", "F", "G", "H", "I", "J", "K", "L", "M",
   "N", "O", "P", "Q", "R", "S", "T", "U", "V", "W", "X", "Y", "Z"}

LowerLetters ==
  {"a", "b", "c", "d", "e", "f", "g", "h", "i", "j", "k", "l", "m",
   "n", "o", "p", "q", "r", "s", "t", "u", "v", "w", "x", "y", "z"}

isDigit(ch) == ch \in Digits

isAlpha(ch) == ch \in LowerLetters \cup UpperLetters \cup {"_"}

isAlphaNumeric(ch) == isAlpha(ch) \/ isDigit(ch)

Whitespace == {" ", "\t", "\n", "\r"}

\* peek / peekNext: the character at a position, "\0" past the end.
CharAt(src, p) == IF p \in DOMAIN src THEN src[p] ELSE "\\0"

KEYWORDS(lexeme) ==
  CASE lexeme = <<"l", "e", "t">> -> "Let"
    [] lexeme = <<"r", "e", "c">> -> "Rec"
    [] lexeme = <<"f", "n">> -> "Fn"
    [] lexeme = <<"m", "a", "t", "c", "h">> -> "Match"
    [] lexeme = <<"c", "a", "t", "c", "h">> -> "Catch"
    [] lexeme = <<"i", "n">> -> "In"
    [] lexeme = <<"i", "f">> -> "If"
    [] lexeme = <<"t", "r", "u", "e">> -> "True"
    [] lexeme = <<"f", "a", "l", "s", "e">> -> "False"
    [] OTHER -> "undefined"

TwoCharKind(two) ==
  CASE two = <<"|", ">">> -> "Pipe"
    [] two = <<"|", "|">> -> "PipePipe"
    [] two = <<"+", "+">> -> "PlusPlus"
    [] two = <<"-", ">">> -> "Arrow"
    [] two = <<"=", "=">> -> "EqEq"
    [] two = <<"!", "=">> -> "BangEq"
    [] two = <<"<", "=">> -> "LtEq"
    [] two = <<">", "=">> -> "GtEq"
    [] two = <<"&", "&">> -> "AmpAmp"
    [] OTHER -> "none"

OneCharKind(ch) ==
  CASE ch = "+" -> "Plus"
    [] ch = "-" -> "Minus"
    [] ch = "*" -> "Star"
    [] ch = "/" -> "Slash"
    [] ch = "%" -> "Percent"
    [] ch = "=" -> "Eq"
    [] ch = "<" -> "Lt"
    [] ch = ">" -> "Gt"
    [] ch = "!" -> "Bang"
    [] ch = "?" -> "Question"
    [] ch = "(" -> "LParen"
    [] ch = ")" -> "RParen"
    [] ch = "{" -> "LBrace"
    [] ch = "}" -> "RBrace"
    [] ch = "[" -> "LBracket"
    [] ch = "]" -> "RBracket"
    [] ch = "," -> "Comma"
    [] ch = "." -> "Dot"
    [] ch = ":" -> "Colon"
    [] ch = "_" -> "Underscore"
    [] OTHER -> "none"

RECURSIVE Run(_, _, _)
\* while (pos < source.length && class(peek())) advance(): where it stops.
Run(src, p, class) ==
  IF p \in DOMAIN src /\ src[p] \in class THEN Run(src, p + 1, class) ELSE p

RECURSIVE skipLine(_, _)
\* A line comment: up to the newline or the end.
skipLine(src, p) ==
  IF p \in DOMAIN src /\ src[p] # "\n" THEN skipLine(src, p + 1) ELSE p

RECURSIVE skipWhitespace(_, _)
skipWhitespace(src, p) ==
  IF p \notin DOMAIN src THEN p
  ELSE IF src[p] \in Whitespace THEN skipWhitespace(src, p + 1)
  ELSE IF src[p] = "-" /\ CharAt(src, p + 1) = "-" THEN skipWhitespace(src, skipLine(src, p))
  ELSE p

RECURSIVE stringEnd(_, _)
\* readString from the character after the opening quote: the position
\* after the closing quote, or 0 for an unterminated string.
stringEnd(src, p) ==
  IF p \notin DOMAIN src THEN 0
  ELSE IF src[p] = "\"" THEN p + 1
  ELSE IF src[p] = "\n" THEN 0
  ELSE stringEnd(src, p + 1)

\* readNumber: the position after the number.
numberEnd(src, p) ==
  LET e == Run(src, p, Digits) IN
  IF CharAt(src, e) = "." /\ isDigit(CharAt(src, e + 1))
  THEN Run(src, e + 1, Digits) ELSE e

identifierKind(lexeme) ==
  IF KEYWORDS(lexeme) # "undefined" THEN KEYWORDS(lexeme)
  ELSE IF lexeme[1] \in UpperLetters THEN "UpperIdent"
  ELSE "Ident"

RECURSIVE lexLoop(_, _, _)
RECURSIVE lexToken(_, _, _)
RECURSIVE emit(_, _, _, _, _)

\* Variant: the lexeme of a string is its content, without the quotes.
emitContent(src, p, e, kind, toks) ==
  lexLoop(src, e, Append(toks, [kind |-> kind,
                                lexeme |-> IF kind = "String" THEN SubSeq(src, p + 1, e - 2)
                                           ELSE SubSeq(src, p, e - 1)]))

\* emit(kind, lexeme, ...) for the characters from p up to e, then continue.
emit(src, p, e, kind, toks) ==
  lexLoop(src, e, Append(toks, [kind |-> kind, lexeme |-> SubSeq(src, p, e - 1)]))

\* One round of the main loop, at the first character of a token.
lexToken(src, p, toks) ==
  IF p \notin DOMAIN src
  THEN [ok |-> TRUE, tokens |-> Append(toks, [kind |-> "EOF", lexeme |-> <<>>])]
  ELSE IF isDigit(src[p])
  THEN emit(src, p, numberEnd(src, p),
            IF numberEnd(src, p) = Run(src, p, Digits) THEN "Int" ELSE "Float", toks)
  ELSE IF src[p] = "\""
  THEN IF stringEnd(src, p + 1) = 0 THEN [ok |-> FALSE, pos |-> p]
       ELSE emit(src, p, stringEnd(src, p + 1), "String", toks)
  ELSE IF src[p] = "_" /\ ~isAlphaNumeric(CharAt(src, p + 1))
  THEN emit(src, p, p + 1, "Underscore", toks)
  ELSE IF isAlpha(src[p])
  THEN emit(src, p, Run(src, p, LowerLetters \cup UpperLetters \cup {"_"} \cup Digits),
            identifierKind(SubSeq(src, p,
               Run(src, p, LowerLetters \cup UpperLetters \cup {"_"} \cup Digits) - 1)),
            toks)
  ELSE IF TwoCharKind(<<src[p], CharAt(src, p + 1)>>) # "none"
  THEN emit(src, p, p + 2, TwoCharKind(<<src[p], CharAt(src, p + 1)>>), toks)
  ELSE IF OneCharKind(src[p]) # "none"
  THEN emit(src, p, p + 1, OneCharKind(src[p]), toks)
  ELSE [ok |-> FALSE, pos |-> p]

lexLoop(src, p, toks) == lexToken(src, skipWhitespace(src, p), toks)

lex(src) == lexLoop(src, 1, <<>>)

(***************************************************************************)
(* Types (types.ts) and unification (unify.ts).  A Substitution is a Map   *)
(* from type-variable id to Type; record fields are the Map's entries in   *)
(* insertion order.  unify mutates the Map it is given, so its outcome is  *)
(* [ok, subst] with the Map as the call left it, also when it throws.      *)
(***************************************************************************)
TCon(n) == [kind |-> "TCon", name |-> n]

TVar(i) == [kind |-> "TVar", id |-> i]

TFn(p, r) == [kind |-> "TFn", param |-> p, ret |-> r]

TList(e) == [kind |-> "TList", element |-> e]

TTuple(es) == [kind |-> "TTuple", elements |-> es]

NoRest == [kind |-> "null"]

TRecord(fs, r) == [kind |-> "TRecord", fields |-> fs, rest |-> r]

Field(n, t) == [name |-> n, type |-> t]

TResult(o) == [kind |-> "TResult", ok |-> o]

TTag(t, as) == [kind |-> "TTag", tag |-> t, args |-> as]

\* What a call that recurses without end becomes: RangeError, stack overflow.
Overflow == [kind |-> "RangeError"]

\* The value of an expression whose parts are the given ones.
Strict(parts, whole) == IF Overflow \in parts THEN Overflow ELSE whole

Range(f) == {f[x] : x \in DOMAIN f}

RECURSIVE applySubstN(_, _, _)
\* applySubst, with n the number of bindings it may still follow on the way
\* down: following more of them than the Map has means following a cycle,
\* on which the code's recursion does not end.
applySubstN(subst, t, n) ==
  CASE t.kind = "TVar" ->
         IF t.id \notin DOMAIN subst THEN t
         ELSE IF n = 0 THEN Overflow
         ELSE applySubstN(subst, subst[t.id], n - 1)
    [] t.kind = "TCon" -> t
    [] t.kind = "TFn" ->
         Strict({applySubstN(subst, t.param, n), applySubstN(subst, t.ret, n)},
                TFn(applySubstN(subst, t.param, n), applySubstN(subst, t.ret, n)))
    [] t.kind = "TList" ->
         Strict({applySubstN(subst, t.element, n)}, TList(applySubstN(subst, t.element, n)))
    [] t.kind = "TTuple" ->
         Strict({applySubstN(subst, t.elements[i], n) : i \in DOMAIN t.elements},
                TTuple([i \in DOMAIN t.elements |-> applySubstN(subst, t.elements[i], n)]))
    [] t.kind = "TRecord" ->
         Strict({applySubstN(subst, t.fields[i].type, n) : i \in DOMAIN t.fields}
                  \cup {IF t.rest = NoRest THEN NoRest ELSE applySubstN(subst, t.rest, n)},
                TRecord([i \in DOMAIN t.fields |->
                           Field(t.fields[i].name, applySubstN(subst, t.fields[i].type, n))],
                        IF t.rest = NoRest THEN NoRest ELSE applySubstN(subst, t.rest, n)))
    [] t.kind = "TResult" ->
         Strict({applySubstN(subst, t.ok, n)}, TResult(applySubstN(subst, t.ok, n)))
    [] t.kind = "TTag" ->
         Strict({applySubstN(subst, t.args[i], n) : i \in DOMAIN t.args},
                TTag(t.tag, [i \in DOMAIN t.args |-> applySubstN(subst, t.args[i], n)]))

applySubst(subst, t) == applySubstN(subst, t, Cardinality(DOMAIN subst))

RECURSIVE occursIn(_, _, _)
occursIn(id, t, subst) ==
  LET r == applySubst(subst, t) IN
  CASE r.kind = "TVar" -> r.id = id
    [] r.kind = "TFn" -> occursIn(id, r.param, subst) \/ occursIn(id, r.ret, subst)
    [] r.kind = "TList" -> occursIn(id, r.element, subst)
    [] r.kind = "TTuple" -> \E i \in DOMAIN r.elements : occursIn(id, r.elements[i], subst)
    [] r.kind = "TResult" -> occursIn(id, r.ok, subst)
    [] r.kind = "TRecord" -> \E i \in DOMAIN r.fields : occursIn(id, r.fields[i].type, subst)
    [] OTHER -> FALSE

Returned(subst) == [ok |-> TRUE, subst |-> subst]

Thrown(error, subst) == [ok |-> FALSE, error |-> error, subst |-> subst]

\* The rest of a function body after a call that returned; a throw in the
\* call is the function's own.
Then(r, K(_)) == IF r.ok THEN K(r.subst) ELSE r

bindVar(id, t, subst) ==
  IF t.kind = "TVar" /\ t.id = id THEN Returned(subst)
  ELSE IF occursIn(id, t, subst) THEN Thrown("TypeError", subst)
  ELSE Returned(MapSet(subst, id, t))

\* fields.get(k): the entry of that name, NoRest for undefined.
FieldOf(fields, k) ==
  IF \E i \in DOMAIN fields : fields[i].name = k
  THEN fields[CHOOSE i \in DOMAIN fields : fields[i].name = k].type
  ELSE NoRest

RECURSIVE unify(_, _, _)
RECURSIVE unifyResolved(_, _, _)
RECURSIVE unifyElements(_, _, _, _)
RECURSIVE unifyFields(_, _, _, _)

\* for (i ...) subst = unify(t1.elements[i], t2.elements[i], subst)
unifyElements(es1, es2, i, subst) ==
  IF i > Len(es1) THEN Returned(subst)
  ELSE Then(unify(es1[i], es2[i], subst), LAMBDA s : unifyElements(es1, es2, i + 1, s))

\* for ([k, v] of t1.fields) { other = t2.fields.get(k); if (other) ... }
unifyFields(fs1, fs2, i, subst) ==
  IF i > Len(fs1) THEN Returned(subst)
  ELSE IF FieldOf(fs2, fs1[i].name) = NoRest THEN unifyFields(fs1, fs2, i + 1, subst)
  ELSE Then(unify(fs1[i].type, FieldOf(fs2, fs1[i].name), subst),
            LAMBDA s : unifyFields(fs1, fs2, i + 1, s))

\* unify after t1 and t2 have had the substitution applied.
unifyResolved(t1, t2, subst) ==
  IF t1.kind = "TVar" THEN bindVar(t1.id, t2, subst)
  ELSE IF t2.kind = "TVar" THEN bindVar(t2.id, t1, subst)
  ELSE IF t1.kind = "TCon" /\ t2.kind = "TCon"
  THEN IF t1.name # t2.name THEN Thrown("TypeError", subst) ELSE Returned(subst)
  ELSE IF t1.kind = "TFn" /\ t2.kind = "TFn"
  THEN Then(unify(t1.param, t2.param, subst), LAMBDA s : unify(t1.ret, t2.ret, s))
  ELSE IF t1.kind = "TList" /\ t2.kind = "TList"
  THEN unify(t1.element, t2.element, subst)
  ELSE IF t1.kind = "TTuple" /\ t2.kind = "TTuple"
  THEN IF Len(t1.elements) # Len(t2.elements) THEN Thrown("TypeError", subst)
       ELSE unifyElements(t1.elements, t2.elements, 1, subst)
  ELSE IF t1.kind = "TResult" /\ t2.kind = "TResult"
  THEN unify(t1.ok, t2.ok, subst)
  ELSE IF t1.kind = "TRecord" /\ t2.kind = "TRecord"
  THEN unifyFields(t1.fields, t2.fields, 1, subst)
  ELSE Thrown("TypeError", subst)

unify(t1, t2, subst) ==
  IF Overflow \in {applySubst(subst, t1), applySubst(subst, t2)}
  THEN Thrown("RangeError", subst)
  ELSE unifyResolved(applySubst(subst, t1), applySubst(subst, t2), subst)

(***************************************************************************)
(* Type inference (typechecker.ts).  A Scheme is [vars, type] with vars    *)
(* the array of quantified ids; a TypeEnv is a function from names to      *)
(* Schemes.  The state st of a run holds the Substitution Map, the counter *)
(* _nextId of freshTypeVar, the flag `source` (infer was given a source    *)
(* text, so _source is set), and the history of the run: `log`, the        *)
(* freshTypeVar, generalize and instantiate calls in order, and `params`,  *)
(* the ids made for the parameters of the lambdas being inferred.          *)
(***************************************************************************)
TInt == TCon("Int")

TString == TCon("String")

Scheme(vs, t) == [vars |-> vs, type |-> t]

mono(t) == Scheme(<<>>, t)

InferState(source, next) ==
  [subst |-> EmptyMap, next |-> next, source |-> source, log |-> <<>>, params |-> {}]

\* A call that returned the type t, and one that threw.
Inferred(t, st) == [ok |-> TRUE, type |-> t, st |-> st]

Raised(class, message, st) ==
  [ok |-> FALSE, error |-> [class |-> class, message |-> message], st |-> st]

StackOverflow(st) == Raised("RangeError", "Maximum call stack size exceeded", st)

\* try { r } catch { K }
OrElse(r, K(_)) == IF r.ok THEN r ELSE K(r)

Member(x, seq) == \E i \in DOMAIN seq : seq[i] = x

RECURSIVE union(_, _)
\* Sets keep insertion order: the elements of a, then those of b not in a.
union(a, b) ==
  IF b = <<>> THEN a
  ELSE union(IF Member(Head(b), a) THEN a ELSE Append(a, Head(b)), Tail(b))

RECURSIVE freeVars(_)
RECURSIVE freeVarsAll(_, _, _)
freeVarsAll(ts, i, acc) ==
  IF i > Len(ts) THEN acc ELSE freeVarsAll(ts, i + 1, union(acc, freeVars(ts[i])))

FieldTypes(fields) == [i \in DOMAIN fields |-> fields[i].type]

freeVars(t) ==
  CASE t.kind = "TVar" -> <<t.id>>
    [] t.kind = "TCon" -> <<>>
    [] t.kind = "TFn" -> union(freeVars(t.param), freeVars(t.ret))
    [] t.kind = "TList" -> freeVars(t.element)
    [] t.kind = "TTuple" -> freeVarsAll(t.elements, 1, <<>>)
    [] t.kind = "TRecord" ->
         IF t.rest = NoRest THEN freeVarsAll(FieldTypes(t.fields), 1, <<>>)
         ELSE union(freeVarsAll(FieldTypes(t.fields), 1, <<>>), freeVars(t.rest))
    [] t.kind = "TResult" -> freeVars(t.ok)
    [] t.kind = "TTag" -> freeVarsAll(t.args, 1, <<>>)

freeVarsScheme(s) == Range(freeVars(s.type)) \ Range(s.vars)

freeVarsEnv(env) == UNION {freeVarsScheme(env[k]) : k \in DOMAIN env}

applySubstEnv(subst, env) ==
  [k \in DOMAIN env |-> Scheme(env[k].vars, applySubst(subst, env[k].type))]

\* Some applySubst call of applySubstEnv(subst, env) does not end.
EnvOverflows(subst, env) == \E k \in DOMAIN env : applySubst(subst, env[k].type) = Overflow

\* Variant: every free variable of the type is quantified.
generalizeAll(env, t, subst) ==
  IF applySubst(subst, t) = Overflow \/ EnvOverflows(subst, env) THEN Overflow
  ELSE Scheme(freeVars(applySubst(subst, t)), applySubst(subst, t))

generalize(env, t, subst) ==
  IF applySubst(subst, t) = Overflow \/ EnvOverflows(subst, env) THEN Overflow
  ELSE Scheme(SelectSeq(freeVars(applySubst(subst, t)),
                        LAMBDA v : v \notin freeVarsEnv(applySubstEnv(subst, env))),
              applySubst(subst, t))

RECURSIVE substituteVars(_, _)
substituteVars(mapping, t) ==
  CASE t.kind = "TVar" -> IF t.id \in DOMAIN mapping THEN mapping[t.id] ELSE t
    [] t.kind = "TCon" -> t
    [] t.kind = "TFn" -> TFn(substituteVars(mapping, t.param), substituteVars(mapping, t.ret))
    [] t.kind = "TList" -> TList(substituteVars(mapping, t.element))
    [] t.kind = "TTuple" ->
         TTuple([i \in DOMAIN t.elements |-> substituteVars(mapping, t.elements[i])])
    [] t.kind = "TRecord" ->
         TRecord([i \in DOMAIN t.fields |->
                    Field(t.fields[i].name, substituteVars(mapping, t.fields[i].type))],
                 IF t.rest = NoRest THEN NoRest ELSE substituteVars(mapping, t.rest))
    [] t.kind = "TResult" -> TResult(substituteVars(mapping, t.ok))
    [] t.kind = "TTag" -> TTag(t.tag, [i \in DOMAIN t.args |-> substituteVars(mapping, t.args[i])])

Fresh(id) == [event |-> "freshTypeVar", id |-> id]

\* { kind: "TVar", id: _nextId++ }
freshTypeVar(st) ==
  Inferred(TVar(st.next), [st EXCEPT !.next = @ + 1, !.log = Append(@, Fresh(st.next))])

RECURSIVE freshMapping(_, _, _, _)
\* for (const v of scheme.vars) mapping.set(v, freshTypeVar())
freshMapping(vs, i, mapping, st) ==
  IF i > Len(vs) THEN [mapping |-> mapping, st |-> st]
  ELSE freshMapping(vs, i + 1, MapSet(mapping, vs[i], freshTypeVar(st).type), freshTypeVar(st).st)

Instantiated(scheme, env, st, t) ==
  [event |-> "instantiate", scheme |-> scheme, env |-> env, subst |-> st.subst,
   at |-> Len(st.log) + 1, type |-> t]

instantiateWith(scheme, env, st, m) ==
  Inferred(substituteVars(m.mapping, scheme.type),
           [m.st EXCEPT !.log = Append(@, Instantiated(scheme, env, st,
                                          substituteVars(m.mapping, scheme.type)))])

instantiate(scheme, env, st) ==
  instantiateWith(scheme, env, st, freshMapping(scheme.vars, 1, EmptyMap, st))

\* if (_source) return new RillError(...); return new TypeError(msg)
typeError(message, st) ==
  IF st.source THEN Raised("RillError", message, st) ELSE Raised("TypeError", message, st)

\* A TypeError thrown under withSpan leaves it as a RillError when _source is set.
withSpan(r) ==
  IF ~r.ok /\ r.error.class = "TypeError" /\ r.st.source
  THEN Raised("RillError", r.error.message, r.st)
  ELSE r

\* What a unify call on the run's Map gives: the Map is the same object.
Unified(r, st) ==
  IF r.ok THEN Inferred(NoRest, [st EXCEPT !.subst = r.subst])
  ELSE IF r.error = "RangeError" THEN StackOverflow([st EXCEPT !.subst = r.subst])
  ELSE Raised("TypeError", "Cannot unify", [st EXCEPT !.subst = r.subst])

unifyIn(t1, t2, st) == Unified(unify(t1, t2, st.subst), st)

Checked(t, st) == IF t = Overflow THEN StackOverflow(st) ELSE Inferred(t, st)

\* applySubst(s, t) with the run's substitution.
applyIn(t, st) == Checked(applySubst(st.subst, t), st)

Generalized(env, t, st, scheme) ==
  [event |-> "generalize", env |-> env, type |-> t, subst |-> st.subst,
   params |-> st.params, scheme |-> scheme]

TBool == TCon("Bool")

\* fields.set(name, t) on a Map kept in insertion order
FieldSet(fields, name, t) ==
  IF \E i \in DOMAIN fields : fields[i].name = name
  THEN [i \in DOMAIN fields |-> IF fields[i].name = name THEN Field(name, t) ELSE fields[i]]
  ELSE Append(fields, Field(name, t))

RECURSIVE FieldsOf(_, _, _, _)
FieldsOf(fs, ts, i, acc) ==
  IF i > Len(fs) THEN acc ELSE FieldsOf(fs, ts, i + 1, FieldSet(acc, fs[i].name, ts[i]))

inferBinOp(op, leftT, rightT, st) ==
  IF op \in {"+", "-", "*", "/", "%"}
  THEN Bind(unifyIn(leftT, rightT, st), LAMBDA u : applyIn(leftT, u.st))
  ELSE IF op \in {"==", "!=", "<", ">", "<=", ">="}
  THEN Bind(unifyIn(leftT, rightT, st), LAMBDA u : Inferred(TBool, u.st))
  ELSE IF op = "++"
  THEN Bind(unifyIn(leftT, TString, st), LAMBDA u :
       Bind(unifyIn(rightT, TString, u.st), LAMBDA w : Inferred(TString, w.st)))
  ELSE IF op \in {"&&", "||"}
  THEN Bind(unifyIn(leftT, TBool, st), LAMBDA u :
       Bind(unifyIn(rightT, TBool, u.st), LAMBDA w : Inferred(TBool, w.st)))
  ELSE Raised("TypeError", "Unknown operator", st)

\* A pattern's type, the names it binds (in order) and the state after it.
Pattern(t, bindings, st) == [ok |-> TRUE, type |-> t, bindings |-> bindings, st |-> st]

RECURSIVE inferPattern(_, _)
RECURSIVE inferPatterns(_, _, _, _, _)
\* The loops of the TagPat, TuplePat and RecordPat cases: the types of the
\* patterns ps[i..], after those in types.
inferPatterns(ps, i, types, bindings, st) ==
  IF i > Len(ps) THEN Pattern(types, bindings, st)
  ELSE Bind(inferPattern(ps[i], st), LAMBDA p :
         inferPatterns(ps, i + 1, Append(types, p.type), bindings \o p.bindings, p.st))

inferPattern(pattern, st) ==
  CASE pattern.kind = "IntPat" -> Pattern(TInt, <<>>, st)
    [] pattern.kind = "FloatPat" -> Pattern(TCon("Float"), <<>>, st)
    [] pattern.kind = "StringPat" -> Pattern(TString, <<>>, st)
    [] pattern.kind = "BoolPat" -> Pattern(TBool, <<>>, st)
    [] pattern.kind = "WildcardPat" -> Pattern(freshTypeVar(st).type, <<>>, freshTypeVar(st).st)
    [] pattern.kind = "IdentPat" ->
         Pattern(freshTypeVar(st).type, <<<<pattern.name, mono(freshTypeVar(st).type)>>>>,
                 freshTypeVar(st).st)
    [] pattern.kind = "TagPat" ->
         Bind(inferPatterns(pattern.args, 1, <<>>, <<>>, st), LAMBDA p :
           IF pattern.tag = "Ok" /\ Len(p.type) = 1 THEN Pattern(TResult(p.type[1]), p.bindings, p.st)
           ELSE IF pattern.tag = "Err" /\ Len(p.type) = 1
           THEN Pattern(TResult(freshTypeVar(p.st).type), p.bindings, freshTypeVar(p.st).st)
           ELSE Pattern(TTag(pattern.tag, p.type), p.bindings, p.st))
    [] pattern.kind = "TuplePat" ->
         Bind(inferPatterns(pattern.elements, 1, <<>>, <<>>, st), LAMBDA p :
           Pattern(TTuple(p.type), p.bindings, p.st))
    [] pattern.kind = "RecordPat" ->
         Bind(inferPatterns([i \in DOMAIN pattern.fields |-> pattern.fields[i].pattern],
                            1, <<>>, <<>>, st), LAMBDA p :
           Pattern(TRecord(FieldsOf(pattern.fields, p.type, 1, <<>>), freshTypeVar(p.st).type),
                   p.bindings, freshTypeVar(p.st).st))

RECURSIVE inferExpr(_, _, _)
RECURSIVE inferAll(_, _, _, _, _)
RECURSIVE inferRest(_, _, _, _, _)
RECURSIVE inferCases(_, _, _, _, _, _)

\* The loops of the Tuple, Record and Tag cases: the types of es[i..], in order.
inferAll(es, i, env, st, types) ==
  IF i > Len(es) THEN Inferred(types, st)
  ELSE Bind(inferExpr(es[i], env, st), LAMBDA e : inferAll(es, i + 1, env, e.st, Append(types, e.type)))

\* The loop of the List case: each further element is unified with the first.
inferRest(es, i, env, st, firstT) ==
  IF i > Len(es) THEN Bind(applyIn(firstT, st), LAMBDA a : Inferred(TList(a.type), a.st))
  ELSE Bind(inferExpr(es[i], env, st), LAMBDA e :
       Bind(unifyIn(firstT, e.type, e.st), LAMBDA u : inferRest(es, i + 1, env, u.st, firstT)))

\* try { s = unify(applySubst(s2, subjT), patT, s2) } catch { s = s2 }:
\* the state after it, whichever way it went.
SubjectUnified(subjT, p) ==
  IF p.type.kind = "TTag" THEN p.st
  ELSE IF ~applyIn(subjT, p.st).ok THEN p.st
  ELSE unifyIn(applyIn(subjT, p.st).type, p.type, p.st).st

\* The loop of the Match case.
inferCases(cases, i, env, st, subjT, retT) ==
  IF i > Len(cases) THEN applyIn(retT, st)
  ELSE Bind(inferPattern(cases[i].pattern, st), LAMBDA p :
       Bind(inferExpr(cases[i].body, MapSetAll(env, p.bindings), SubjectUnified(subjT, p)), LAMBDA b :
       Bind(unifyIn(retT, b.type, b.st), LAMBDA u :
         inferCases(cases, i + 1, env, u.st, subjT, retT))))

inferLetBody(expr, env, valT, st, scheme) ==
  IF scheme = Overflow THEN StackOverflow(st)
  ELSE inferExpr(expr.body, MapSet(env, expr.name, scheme),
                 IF expr.rec THEN st
                 ELSE [st EXCEPT !.log = Append(@, Generalized(env, valT, st, scheme))])

inferFn(expr, env, st, p) ==
  Bind(inferExpr(expr.body, MapSet(env, expr.param, mono(p.type)),
                 [p.st EXCEPT !.params = @ \cup {p.type.id}]), LAMBDA b :
  Bind(applyIn(p.type, b.st), LAMBDA a :
    Inferred(TFn(a.type, b.type), [b.st EXCEPT !.params = st.params])))

\* withSpan(() => unify(applySubst(s2, fnT), { kind: "TFn", param: argT, ret: retT }, s2)),
\* then applySubst(s3, retT); r is the freshTypeVar() made for retT.
inferCall(fnT, argT, r) ==
  Bind(withSpan(Bind(applyIn(fnT, r.st), LAMBDA f : unifyIn(f.type, TFn(argT, r.type), r.st))),
       LAMBDA u : applyIn(r.type, u.st))

\* unify(applySubst(s, t), { kind: "TResult", ok: okT }, s), then
\* applySubst(s4, okT); k is the freshTypeVar() made for okT.
inferUnwrap(t, k) ==
  Bind(applyIn(t, k.st), LAMBDA a :
  Bind(unifyIn(a.type, TResult(k.type), k.st), LAMBDA u : applyIn(k.type, u.st)))

inferPipeCatch(expr, env, leftT, k) ==
  Bind(applyIn(leftT, k.st), LAMBDA a :
  Bind(unifyIn(a.type, TResult(k.type), k.st), LAMBDA u :
  Bind(inferExpr(expr.right.fallback, MapSet(env, expr.right.errorName, mono(TString)), u.st), LAMBDA f :
  Bind(applyIn(k.type, f.st), LAMBDA o :
  Bind(unifyIn(o.type, f.type, f.st), LAMBDA w : applyIn(k.type, w.st))))))

inferPipeTry(fnT, leftT, r) ==
  Bind(applyIn(fnT, r.st), LAMBDA f :
  Bind(applyIn(leftT, r.st), LAMBDA l :
  Bind(unifyIn(f.type, TFn(l.type, r.type), r.st), LAMBDA u :
    inferUnwrap(r.type, freshTypeVar(u.st)))))

inferPipe(rightT, leftT, r) ==
  Bind(applyIn(rightT, r.st), LAMBDA f :
  Bind(applyIn(leftT, r.st), LAMBDA l :
  Bind(unifyIn(f.type, TFn(l.type, r.type), r.st), LAMBDA u : applyIn(r.type, u.st))))

\* The TVar branch of the FieldAccess case; f and r are the fresh variables
\* of the field and of the rest.
inferField(resolved, field, f, r) ==
  Bind(unifyIn(resolved, TRecord(<<Field(field, f.type)>>, r.type), r.st), LAMBDA u :
    applyIn(f.type, u.st))

inferFieldAccess(expr, resolved, st) ==
  IF resolved.kind = "TRecord"
  THEN IF FieldOf(resolved.fields, expr.field) = NoRest
       THEN Raised("TypeError", "No field", st)
       ELSE Inferred(FieldOf(resolved.fields, expr.field), st)
  ELSE IF resolved.kind = "TVar"
  THEN inferField(resolved, expr.field, freshTypeVar(st), freshTypeVar(freshTypeVar(st).st))
  ELSE Raised("TypeError", "Field access on non-record type", st)

inferExpr(expr, env, st) ==
  CASE expr.kind = "IntLit" -> Inferred(TInt, st)
    [] expr.kind = "FloatLit" -> Inferred(TCon("Float"), st)
    [] expr.kind = "StringLit" -> Inferred(TString, st)
    [] expr.kind = "BoolLit" -> Inferred(TBool, st)
    [] expr.kind = "UnitLit" -> Inferred(TCon("Unit"), st)
    [] expr.kind = "Ident" ->
         IF expr.name \notin DOMAIN env THEN Raised("TypeError", "Undefined variable", st)
         ELSE instantiate(env[expr.name], env, st)
    [] expr.kind = "BinOp" ->
         Bind(inferExpr(expr.left, env, st), LAMBDA l :
         Bind(inferExpr(expr.right, env, l.st), LAMBDA r :
           withSpan(inferBinOp(expr.op, l.type, r.type, r.st))))
    [] expr.kind = "UnaryOp" ->
         Bind(inferExpr(expr.expr, env, st), LAMBDA o :
           IF expr.op = "!"
           THEN Bind(unifyIn(o.type, TBool, o.st), LAMBDA u : Inferred(TBool, u.st))
           ELSE IF expr.op = "-"
           THEN OrElse(Bind(unifyIn(o.type, TInt, o.st), LAMBDA u : Inferred(TInt, u.st)),
                       LAMBDA x : Bind(unifyIn(o.type, TCon("Float"), x.st),
                                       LAMBDA u : Inferred(TCon("Float"), u.st)))
           ELSE Raised("TypeError", "Unknown unary op", o.st))
    [] expr.kind = "Let" ->
         Bind(inferExpr(expr.value, env, st), LAMBDA v :
           inferLetBody(expr, env, v.type, v.st,
                        IF expr.rec THEN mono(v.type) ELSE generalize(env, v.type, v.st.subst)))
    [] expr.kind = "Fn" -> inferFn(expr, env, st, freshTypeVar(st))
    [] expr.kind = "Call" ->
         Bind(inferExpr(expr.fn, env, st), LAMBDA f :
         Bind(inferExpr(expr.arg, env, f.st), LAMBDA a :
           inferCall(f.type, a.type, freshTypeVar(a.st))))
    [] expr.kind = "If" ->
         Bind(inferExpr(expr.cond, env, st), LAMBDA c :
         Bind(unifyIn(c.type, TBool, c.st), LAMBDA u :
         Bind(inferExpr(expr.then, env, u.st), LAMBDA t :
         Bind(inferExpr(expr.else_, env, t.st), LAMBDA e :
         Bind(unifyIn(t.type, e.type, e.st), LAMBDA w : applyIn(t.type, w.st))))))
    [] expr.kind = "List" ->
         IF expr.elements = <<>>
         THEN Inferred(TList(freshTypeVar(st).type), freshTypeVar(st).st)
         ELSE Bind(inferExpr(expr.elements[1], env, st), LAMBDA e :
                inferRest(expr.elements, 2, env, e.st, e.type))
    [] expr.kind = "Tuple" ->
         Bind(inferAll(expr.elements, 1, env, st, <<>>), LAMBDA es :
           Inferred(TTuple(es.type), es.st))
    [] expr.kind = "Record" ->
         Bind(inferAll([i \in DOMAIN expr.fields |-> expr.fields[i].value], 1, env, st, <<>>),
              LAMBDA es : Inferred(TRecord(FieldsOf(expr.fields, es.type, 1, <<>>), NoRest), es.st))
    [] expr.kind = "FieldAccess" ->
         Bind(inferExpr(expr.expr, env, st), LAMBDA r :
         Bind(applyIn(r.type, r.st), LAMBDA a : inferFieldAccess(expr, a.type, a.st)))
    [] expr.kind = "Tag" ->
         Bind(inferAll(expr.args, 1, env, st, <<>>), LAMBDA as :
           IF expr.tag = "Ok" /\ Len(as.type) = 1 THEN Inferred(TResult(as.type[1]), as.st)
           ELSE IF expr.tag = "Err" /\ Len(as.type) = 1
           THEN Inferred(TResult(freshTypeVar(as.st).type), freshTypeVar(as.st).st)
           ELSE Inferred(TTag(expr.tag, as.type), as.st))
    [] expr.kind = "Pipe" ->
         Bind(inferExpr(expr.left, env, st), LAMBDA l :
           IF expr.right.kind = "Catch"
           THEN inferPipeCatch(expr, env, l.type, freshTypeVar(l.st))
           ELSE IF expr.right.kind = "Try"
           THEN Bind(inferExpr(expr.right.expr, env, l.st), LAMBDA f :
                  inferPipeTry(f.type, l.type, freshTypeVar(f.st)))
           ELSE Bind(inferExpr(expr.right, env, l.st), LAMBDA r :
                  inferPipe(r.type, l.type, freshTypeVar(r.st))))
    [] expr.kind = "Match" ->
         Bind(inferExpr(expr.subject, env, st), LAMBDA s :
           inferCases(expr.cases, 1, env, freshTypeVar(s.st).st, s.type, freshTypeVar(s.st).type))
    [] expr.kind = "Try" ->
         Bind(inferExpr(expr.expr, env, st), LAMBDA e :
         Bind(applyIn(e.type, freshTypeVar(e.st).st), LAMBDA a :
           OrElse(Bind(unifyIn(a.type, TResult(freshTypeVar(e.st).type), a.st), LAMBDA u :
                    applyIn(freshTypeVar(e.st).type, u.st)),
                  LAMBDA x : typeError("The ? operator requires a Result type", x.st))))
    [] expr.kind = "Catch" ->
         Bind(inferExpr(expr.expr, env, st), LAMBDA e :
           inferExpr(expr.fallback, MapSet(env, expr.errorName, mono(TString)), e.st))
    [] OTHER -> Raised("TypeError", "Cannot type-check", st)

\* infer(expr, env, source) after the counter was left at `next`.
infer(expr, env, source, next) ==
  Bind(inferExpr(expr, env, InferState(source, next)), LAMBDA r : applyIn(r.type, r.st))

(***************************************************************************)
(* State of one run of evaluate(expr, env).                                *)
(*   mode      "eval": evalExpr(ctrl, env) is about to run;                *)
(*             "ret": an evalExpr/applyFn call returned the value ctrl;    *)
(*             "throw": an EarlyReturn carrying ctrl is unwinding;         *)
(*             "error": a JavaScript Error with message ctrl is unwinding; *)
(*             "done": evaluate has finished with `result`.                *)
(*   stack     pending evalExpr/applyFn/built-in activations, top first.   *)
(*   envs, closures, builtins   heaps of Map, Closure and BuiltinFn        *)
(*             objects, indexed by allocation order.                       *)
(*   transfers, fallbacks, invoked, applyCount, nbind, recBound   history  *)
(*             of the run: EarlyReturns thrown, fallbacks entered,         *)
(*             underlying callables invoked, applyFn calls, Catch          *)
(*             activations, closures bound by a let rec.                   *)
(*   tokens    the token array a Parser is constructed on                  *)
(*   tree      what parser.parse() gave for it: NotParsed before the call  *)
(*   source    the characters given to lex                                 *)
(*   lexed     what lex(source) gave: NotLexed before the call             *)
(*   relexed   what lex gave for the lexemes of lexed joined by whitespace *)
(*   subst     the Substitution Map a caller threads through unify calls   *)
(*   ucall     the last unify call made on it, with how it ended           *)
(*   ncalls    the number of unify calls made on it                        *)
(*   typeEnv   the TypeEnv a ReplSession has accumulated                   *)
(*   run       the last inference run: who called infer, on what, with     *)
(*             which env, and how it ended; NoRun before the first         *)
(*   ninputs   the number of inputs the session has been given             *)
(***************************************************************************)
VARIABLES prog, mode, ctrl, env, stack, envs, closures, builtins, result,
          transfers, fallbacks, invoked, applyCount, nbind, recBound,
          tokens, tree, source, lexed, relexed, subst, ucall, ncalls,
          typeEnv, run, ninputs

machineVars == <<mode, ctrl, env, stack, result>>

heapVars == <<envs, closures, builtins>>

histVars == <<transfers, fallbacks, invoked, applyCount, nbind, recBound>>

evalVars == <<prog, machineVars, heapVars, histVars>>

parseVars == <<tokens, tree>>

lexVars == <<source, lexed, relexed>>

unifyVars == <<subst, ucall, ncalls>>

inferVars == <<typeEnv, run, ninputs>>

vars == <<evalVars, parseVars, lexVars, unifyVars, inferVars>>

exceptEval == <<parseVars, lexVars, unifyVars, inferVars>>

exceptParse == <<evalVars, lexVars, unifyVars, inferVars>>

exceptLex == <<evalVars, parseVars, unifyVars, inferVars>>

exceptUnify == <<evalVars, parseVars, lexVars, inferVars>>

exceptInfer == <<evalVars, parseVars, lexVars, unifyVars>>

NotParsed == [pending |-> TRUE]

NotLexed == [pending |-> TRUE]

IdleParse == tokens = <<>> /\ tree = NotParsed

IdleLex == source = <<>> /\ lexed = NotLexed /\ relexed = NotLexed

NoCall == [pending |-> TRUE]

IdleUnify == subst = EmptyMap /\ ucall = NoCall /\ ncalls = 0

NoRun == [pending |-> TRUE]

IdleInfer == typeEnv = EmptyMap /\ run = NoRun /\ ninputs = 0

(***************************************************************************)
(* The prelude (prelude.ts, createPrelude): every entry is built by        *)
(* builtin(name, arity, fn), which starts with no accumulated arguments.   *)
(* to_string and print (text rendering, console output) are not modelled.  *)
(***************************************************************************)
builtin(name, arity) == [name |-> name, arity |-> arity, applied |-> <<>>]

createPrelude ==
  << builtin("map", 2), builtin("filter", 2), builtin("fold", 3),
     builtin("length", 1), builtin("head", 1), builtin("tail", 1),
     builtin("concat", 2), builtin("each", 2) >>

PreludeEnv ==
  [n \in {createPrelude[i].name : i \in DOMAIN createPrelude} |->
     BuiltinV(CHOOSE i \in DOMAIN createPrelude : createPrelude[i].name = n)]

Arity(name) ==
  createPrelude[CHOOSE i \in DOMAIN createPrelude : createPrelude[i].name = name].arity

(***************************************************************************)
(* Pure helpers of the evaluator.                                          *)
(***************************************************************************)
RuntimeError(msg) == [kind |-> "Error", msg |-> msg]

LitValue(e) ==
  CASE e.kind = "IntLit" -> IntV(e.value)
    [] e.kind = "StringLit" -> StringV(e.value)
    [] e.kind = "BoolLit" -> BoolV(e.value)
    [] e.kind = "UnitLit" -> UnitV

\* evalBinOp on Int, String and Bool operands (Float, / and % are left out).
evalBinOp(op, left, right) ==
  IF left.kind = "Int" /\ right.kind = "Int"
       /\ op \in {"+", "-", "*", "==", "!=", "<", ">", "<=", ">="}
  THEN CASE op = "+" -> IntV(left.value + right.value)
         [] op = "-" -> IntV(left.value - right.value)
         [] op = "*" -> IntV(left.value * right.value)
         [] op = "==" -> BoolV(left.value = right.value)
         [] op = "!=" -> BoolV(left.value # right.value)
         [] op = "<" -> BoolV(left.value < right.value)
         [] op = ">" -> BoolV(left.value > right.value)
         [] op = "<=" -> BoolV(left.value <= right.value)
         [] op = ">=" -> BoolV(left.value >= right.value)
  ELSE IF left.kind = "String" /\ right.kind = "String" /\ op = "++"
  THEN StringV(left.value \o right.value)
  ELSE IF left.kind = "String" /\ right.kind = "String" /\ op \in {"==", "!="}
  THEN BoolV((left.value = right.value) = (op = "=="))
  ELSE IF left.kind = "Bool" /\ right.kind = "Bool"
            /\ op \in {"&&", "||", "==", "!="}
  THEN CASE op = "&&" -> BoolV(left.value /\ right.value)
         [] op = "||" -> BoolV(left.value \/ right.value)
         [] op = "==" -> BoolV(left.value = right.value)
         [] op = "!=" -> BoolV(left.value # right.value)
  ELSE RuntimeError("Cannot apply operator")

\* matchPattern returns [ok |-> FALSE] for null, and otherwise the bindings
\* as a sequence of <<name, value>> pairs in insertion order.
NoMatch == [ok |-> FALSE, binds |-> <<>>]

Matched(binds) == [ok |-> TRUE, binds |-> binds]

RECURSIVE matchPattern(_, _)
RECURSIVE matchArgs(_, _, _)
matchArgs(pats, vals, acc) ==
  IF pats = <<>> THEN Matched(acc)
  ELSE LET sub == matchPattern(Head(pats), Head(vals)) IN
       IF ~sub.ok THEN NoMatch
       ELSE matchArgs(Tail(pats), Tail(vals), acc \o sub.binds)

matchPattern(pattern, value) ==
  CASE pattern.kind = "IntPat" ->
         IF value.kind = "Int" /\ value.value = pattern.value THEN Matched(<<>>) ELSE NoMatch
    [] pattern.kind = "StringPat" ->
         IF value.kind = "String" /\ value.value = pattern.value THEN Matched(<<>>) ELSE NoMatch
    [] pattern.kind = "BoolPat" ->
         IF value.kind = "Bool" /\ value.value = pattern.value THEN Matched(<<>>) ELSE NoMatch
    [] pattern.kind = "WildcardPat" -> Matched(<<>>)
    [] pattern.kind = "IdentPat" -> Matched(<< <<pattern.name, value>> >>)
    [] pattern.kind = "TagPat" ->
         IF value.kind # "Tag" \/ value.tag # pattern.tag THEN NoMatch
         ELSE IF Len(value.args) # Len(pattern.args) THEN NoMatch
         ELSE matchArgs(pattern.args, value.args, <<>>)

\* Variant: the cases are tried from the last one backwards.
RECURSIVE FirstMatchFromEnd(_, _, _)
FirstMatchFromEnd(cases, subject, i) ==
  IF i > Len(cases) THEN 0
  ELSE IF matchPattern(cases[Len(cases) + 1 - i].pattern, subject).ok
  THEN Len(cases) + 1 - i
  ELSE FirstMatchFromEnd(cases, subject, i + 1)

\* The first case of a match whose pattern matches, 0 when none does.
RECURSIVE FirstMatch(_, _, _)
FirstMatch(cases, subject, i) ==
  IF i > Len(cases) THEN 0
  ELSE IF matchPattern(cases[i].pattern, subject).ok THEN i
  ELSE FirstMatch(cases, subject, i + 1)

(***************************************************************************)
(* Decisions of the Try and Catch cases of evalExpr.                       *)
(***************************************************************************)
\* Variant: the unwrap asks an Err for a payload, as the Catch case does.
TryOutcomeNeedsPayload(val) ==
  IF IsOk1(val) THEN "unwrap"
  ELSE IF IsErr1(val) THEN "raise"
  ELSE "error"

\* Try (and the `x |> f?` pipe form): what becomes of the inspected value.
TryOutcome(val) ==
  IF IsOk1(val) THEN "unwrap"
  ELSE IF IsErr(val) THEN "raise"
  ELSE "error"

\* Catch, try block: what becomes of the value the protected expression
\* returned.
CatchOutcome(val) ==
  IF IsOk1(val) THEN "unwrap"
  ELSE IF IsErr1(val) THEN "fallback"
  ELSE "asis"

\* Variant: the catch block hands back every caught value and never runs
\* the fallback.
CaughtOutcomeNoFallback(val) == "asis"

\* Catch, catch block: what becomes of a caught EarlyReturn.
CaughtOutcome(val) ==
  IF IsErr1(val) THEN "fallback" ELSE "asis"

\* The frames whose code runs inside a JavaScript try block that handles
\* EarlyReturn: only the Catch case of evalExpr has one.  The block spans
\* the protected expression and, when that returned an Err, the fallback.
Intercepts(frame) == frame.kind = "CatchK"

\* Variant: the arity test is off by one.
SaturatedOffByOne(applied, arity) == Len(applied) > arity

\* applyFn on a built-in: is the underlying callable invoked now?
Saturated(applied, arity) == Len(applied) >= arity

(***************************************************************************)
(* Machine steps.                                                          *)
(***************************************************************************)
Step(m, c, en, stk) ==
  /\ mode' = m
  /\ ctrl' = c
  /\ env' = en
  /\ stack' = stk
  /\ UNCHANGED <<prog, exceptEval, result>>

Evaluating(k) == mode = "eval" /\ ctrl.kind = k

Returning(k) == mode = "ret" /\ stack # <<>> /\ Head(stack).kind = k

\* Variant: the binding is also written into the Map that is copied.
BindInPlace(heap, base, name, value) ==
  Append([heap EXCEPT ![base] = MapSet(heap[base], name, value)],
         MapSet(heap[base], name, value))

\* new Map(base) followed by set(name, value): a fresh Map is allocated and
\* the Map it was copied from is left alone.
BindFresh(heap, base, name, value) ==
  Append(heap, MapSet(heap[base], name, value))

\* new Map(base) followed by one set per binding of a matched pattern.
BindAllFresh(heap, base, kvs) ==
  Append(heap, MapSetAll(heap[base], kvs))

\* Variant: no back-patch.
RecFixupNever(rec, value) == FALSE

\* Let: is the closure's captured environment back-patched?
RecFixup(rec, value) == rec /\ value.kind = "Closure"

\* The Catch activations on the stack whose protected expression is under
\* evaluation, innermost first.
Protecting(stk) ==
  LET fs == SelectSeq(stk, LAMBDA f : f.kind = "CatchK" /\ f.phase = "protected")
  IN  [i \in 1..Len(fs) |-> fs[i].id]

\* throw new EarlyReturn(val)
Raise(val, stk) ==
  /\ Step("throw", val, env, stk)
  /\ transfers' = Append(transfers,
       [value |-> val, protecting |-> Protecting(stk),
        frames |-> [i \in 1..Len(stk) |-> stk[i].kind],
        caughtBy |-> 0, applyAtRaise |-> applyCount, applyAtCatch |-> -1])

(*********************** evalExpr, one action per case *********************)
EvalLit ==
  /\ mode = "eval"
  /\ ctrl.kind \in {"IntLit", "StringLit", "BoolLit", "UnitLit"}
  /\ Step("ret", LitValue(ctrl), env, stack)
  /\ UNCHANGED <<heapVars, histVars>>

EvalIdent ==
  /\ Evaluating("Ident")
  /\ IF ctrl.name \in DOMAIN envs[env]
     THEN Step("ret", envs[env][ctrl.name], env, stack)
     ELSE Step("error", "Undefined variable", env, stack)
  /\ UNCHANGED <<heapVars, histVars>>

EvalBinOp ==
  /\ Evaluating("BinOp")
  /\ Step("eval", ctrl.left, env,
          <<[kind |-> "BinOpL", op |-> ctrl.op, right |-> ctrl.right, env |-> env]>> \o stack)
  /\ UNCHANGED <<heapVars, histVars>>

\* Variant: && and || return at once when the left operand decides.
ContBinOpLShortCircuit ==
  /\ Returning("BinOpL")
  /\ LET f == Head(stack) IN
     IF ctrl.kind = "Bool" /\ ((f.op = "&&" /\ ~ctrl.value) \/ (f.op = "||" /\ ctrl.value))
     THEN Step("ret", ctrl, env, Tail(stack))
     ELSE Step("eval", f.right, f.env,
               <<[kind |-> "BinOpR", op |-> f.op, left |-> ctrl]>> \o Tail(stack))
  /\ UNCHANGED <<heapVars, histVars>>

ContBinOpL ==
  /\ Returning("BinOpL")
  /\ LET f == Head(stack) IN
     Step("eval", f.right, f.env,
          <<[kind |-> "BinOpR", op |-> f.op, left |-> ctrl]>> \o Tail(stack))
  /\ UNCHANGED <<heapVars, histVars>>

ContBinOpR ==
  /\ Returning("BinOpR")
  /\ LET f == Head(stack)
         r == evalBinOp(f.op, f.left, ctrl) IN
     IF r.kind = "Error"
     THEN Step("error", r.msg, env, Tail(stack))
     ELSE Step("ret", r, env, Tail(stack))
  /\ UNCHANGED <<heapVars, histVars>>

EvalLet ==
  /\ Evaluating("Let")
  /\ Step("eval", ctrl.value, env,
          <<[kind |-> "LetK", name |-> ctrl.name, rec |-> ctrl.rec,
             body |-> ctrl.body, env |-> env]>> \o stack)
  /\ UNCHANGED <<heapVars, histVars>>

\* The value of a let is known: newEnv = new Map(env); for a recursive
\* closure, recEnv = new Map(value.env), recEnv.set(name, value),
\* value.env = recEnv; then newEnv.set(name, value) and the body runs.
ContLet ==
  /\ Returning("LetK")
  /\ LET f == Head(stack)
         value == ctrl
         withNew == BindFresh(envs, f.env, f.name, value)
         newEnv == Len(envs) + 1 IN
     /\ IF RecFixup(f.rec, value)
        THEN /\ envs' = BindFresh(withNew, closures[value.ref].env, f.name, value)
             /\ closures' = [closures EXCEPT ![value.ref].env = newEnv + 1]
        ELSE /\ envs' = withNew
             /\ closures' = closures
     /\ recBound' = IF f.rec /\ value.kind = "Closure"
                     THEN recBound \cup {<<f.name, value.ref>>}
                     ELSE recBound
     /\ Step("eval", f.body, newEnv, Tail(stack))
  /\ UNCHANGED <<builtins, transfers, fallbacks, invoked, applyCount, nbind>>

EvalFn ==
  /\ Evaluating("Fn")
  /\ envs' = Append(envs, envs[env])
  /\ closures' = Append(closures,
       [param |-> ctrl.param, body |-> ctrl.body, env |-> Len(envs) + 1])
  /\ Step("ret", ClosureV(Len(closures) + 1), env, stack)
  /\ UNCHANGED <<builtins, histVars>>

EvalCall ==
  /\ Evaluating("Call")
  /\ Step("eval", ctrl.fn, env,
          <<[kind |-> "CallFn", arg |-> ctrl.arg, env |-> env]>> \o stack)
  /\ UNCHANGED <<heapVars, histVars>>

ContCallFn ==
  /\ Returning("CallFn")
  /\ LET f == Head(stack) IN
     Step("eval", f.arg, f.env, <<[kind |-> "CallArg", fn |-> ctrl]>> \o Tail(stack))
  /\ UNCHANGED <<heapVars, histVars>>

ContCallArg ==
  /\ Returning("CallArg")
  /\ Step("apply", [fn |-> Head(stack).fn, arg |-> ctrl], env, Tail(stack))
  /\ UNCHANGED <<heapVars, histVars>>

EvalMatch ==
  /\ Evaluating("Match")
  /\ Step("eval", ctrl.subject, env,
          <<[kind |-> "MatchK", cases |-> ctrl.cases, env |-> env]>> \o stack)
  /\ UNCHANGED <<heapVars, histVars>>

ContMatch ==
  /\ Returning("MatchK")
  /\ LET f == Head(stack)
         i == FirstMatch(f.cases, ctrl, 1) IN
     IF i = 0
     THEN /\ Step("error", "No matching pattern", env, Tail(stack))
          /\ envs' = envs
     ELSE /\ envs' = BindAllFresh(envs, f.env, matchPattern(f.cases[i].pattern, ctrl).binds)
          /\ Step("eval", f.cases[i].body, Len(envs) + 1, Tail(stack))
  /\ UNCHANGED <<closures, builtins, histVars>>

EvalTry ==
  /\ Evaluating("Try")
  /\ Step("eval", ctrl.expr, env, <<[kind |-> "TryK"]>> \o stack)
  /\ UNCHANGED <<heapVars, histVars>>

ContTry ==
  /\ Returning("TryK")
  /\ LET o == TryOutcome(ctrl) IN
     CASE o = "unwrap" -> Step("ret", ctrl.args[1], env, Tail(stack))
                          /\ UNCHANGED histVars
       [] o = "raise" -> Raise(ctrl, Tail(stack))
                         /\ UNCHANGED <<fallbacks, invoked, applyCount, nbind, recBound>>
       [] OTHER -> Step("error", "? operator requires Ok(...) or Err(...)", env, Tail(stack))
                   /\ UNCHANGED histVars
  /\ UNCHANGED heapVars

EvalCatch ==
  /\ Evaluating("Catch")
  /\ nbind' = nbind + 1
  /\ Step("eval", ctrl.expr, env,
          <<[kind |-> "CatchK", id |-> nbind + 1, phase |-> "protected",
             errorName |-> ctrl.errorName, fallback |-> ctrl.fallback,
             env |-> env]>> \o stack)
  /\ UNCHANGED <<heapVars, transfers, fallbacks, invoked, applyCount, recBound>>

\* The protected expression returned, inside the try block.  The fallback
\* of a returned Err runs inside the same try block, so the activation
\* stays on the stack while it does.
ContCatch ==
  /\ Returning("CatchK")
  /\ Head(stack).phase = "protected"
  /\ LET f == Head(stack)
         o == CatchOutcome(ctrl) IN
     CASE o = "unwrap" -> /\ Step("ret", ctrl.args[1], env, Tail(stack))
                          /\ UNCHANGED <<envs, fallbacks>>
       [] o = "fallback" ->
            /\ envs' = BindFresh(envs, f.env, f.errorName, ctrl.args[1])
            /\ Step("eval", f.fallback, Len(envs) + 1,
                    <<[f EXCEPT !.phase = "fallback"]>> \o Tail(stack))
            /\ fallbacks' = Append(fallbacks,
                 [binder |-> f.id, via |-> "returned", transfer |-> 0,
                  name |-> f.errorName, env |-> Len(envs) + 1])
       [] OTHER -> /\ Step("ret", ctrl, env, Tail(stack))
                   /\ UNCHANGED <<envs, fallbacks>>
  /\ UNCHANGED <<closures, builtins, transfers, invoked, applyCount, nbind, recBound>>

\* The fallback that ran inside the try block returned.
ContCatchFallback ==
  /\ Returning("CatchK")
  /\ Head(stack).phase = "fallback"
  /\ Step("ret", ctrl, env, Tail(stack))
  /\ UNCHANGED <<heapVars, histVars>>

\* catch (e) of the Catch case, e an EarlyReturn.  The fallback runs in the
\* catch block, outside the try.
CatchTransfer ==
  /\ mode = "throw"
  /\ stack # <<>>
  /\ Intercepts(Head(stack))
  /\ LET f == Head(stack)
         o == CaughtOutcome(ctrl) IN
     /\ transfers' = [transfers EXCEPT ![Len(transfers)].caughtBy = f.id,
                                       ![Len(transfers)].applyAtCatch = applyCount]
     /\ IF o = "fallback"
        THEN /\ envs' = BindFresh(envs, f.env, f.errorName, ctrl.args[1])
             /\ Step("eval", f.fallback, Len(envs) + 1, Tail(stack))
             /\ fallbacks' = Append(fallbacks,
                  [binder |-> f.id, via |-> "transfer", transfer |-> Len(transfers),
                   name |-> f.errorName, env |-> Len(envs) + 1])
        ELSE /\ Step("ret", ctrl, env, Tail(stack))
             /\ UNCHANGED <<envs, fallbacks>>
  /\ UNCHANGED <<closures, builtins, invoked, applyCount, nbind, recBound>>

\* Pipe whose right side is a Catch: the Catch node with its expr replaced
\* by the pipe's left side is evaluated.
EvalPipeCatch ==
  /\ Evaluating("Pipe")
  /\ ctrl.right.kind = "Catch"
  /\ Step("eval", [ctrl.right EXCEPT !.expr = ctrl.left], env, stack)
  /\ UNCHANGED <<heapVars, histVars>>

EvalPipeTry ==
  /\ Evaluating("Pipe")
  /\ ctrl.right.kind = "Try"
  /\ Step("eval", ctrl.left, env,
          <<[kind |-> "PipeTryL", fn |-> ctrl.right.expr, env |-> env]>> \o stack)
  /\ UNCHANGED <<heapVars, histVars>>

ContPipeTryL ==
  /\ Returning("PipeTryL")
  /\ LET f == Head(stack) IN
     Step("eval", f.fn, f.env, <<[kind |-> "PipeTryF", left |-> ctrl]>> \o Tail(stack))
  /\ UNCHANGED <<heapVars, histVars>>

ContPipeTryF ==
  /\ Returning("PipeTryF")
  /\ Step("apply", [fn |-> ctrl, arg |-> Head(stack).left], env,
          <<[kind |-> "PipeTryR"]>> \o Tail(stack))
  /\ UNCHANGED <<heapVars, histVars>>

ContPipeTryR ==
  /\ Returning("PipeTryR")
  /\ LET o == TryOutcome(ctrl) IN
     CASE o = "unwrap" -> Step("ret", ctrl.args[1], env, Tail(stack))
                          /\ UNCHANGED histVars
       [] o = "raise" -> Raise(ctrl, Tail(stack))
                         /\ UNCHANGED <<fallbacks, invoked, applyCount, nbind, recBound>>
       [] OTHER -> Step("error", "? operator requires Ok(...) or Err(...)", env, Tail(stack))
                   /\ UNCHANGED histVars
  /\ UNCHANGED heapVars

EvalPipe ==
  /\ Evaluating("Pipe")
  /\ ctrl.right.kind \notin {"Catch", "Try"}
  /\ Step("eval", ctrl.left, env,
          <<[kind |-> "PipeL", right |-> ctrl.right, env |-> env]>> \o stack)
  /\ UNCHANGED <<heapVars, histVars>>

ContPipeL ==
  /\ Returning("PipeL")
  /\ LET f == Head(stack) IN
     Step("eval", f.right, f.env, <<[kind |-> "PipeR", left |-> ctrl]>> \o Tail(stack))
  /\ UNCHANGED <<heapVars, histVars>>

\* Variant: the left value is applied to the right value.
ContPipeRSwapped ==
  /\ Returning("PipeR")
  /\ Step("apply", [fn |-> Head(stack).left, arg |-> ctrl], env, Tail(stack))
  /\ UNCHANGED <<heapVars, histVars>>

ContPipeR ==
  /\ Returning("PipeR")
  /\ Step("apply", [fn |-> ctrl, arg |-> Head(stack).left], env, Tail(stack))
  /\ UNCHANGED <<heapVars, histVars>>

\* List and Tag: the element expressions are evaluated left to right.
EvalElems ==
  /\ mode = "eval"
  /\ ctrl.kind \in {"List", "Tag"}
  /\ LET es == IF ctrl.kind = "List" THEN ctrl.elements ELSE ctrl.args
         tg == IF ctrl.kind = "List" THEN "" ELSE ctrl.tag IN
     IF es = <<>>
     THEN Step("ret", IF ctrl.kind = "List" THEN ListV(<<>>) ELSE TagV(tg, <<>>),
               env, stack)
     ELSE Step("eval", Head(es), env,
               <<[kind |-> "ElemsK", of |-> ctrl.kind, tag |-> tg, vals |-> <<>>,
                  rest |-> Tail(es), env |-> env]>> \o stack)
  /\ UNCHANGED <<heapVars, histVars>>

ContElems ==
  /\ Returning("ElemsK")
  /\ LET f == Head(stack)
         vs == Append(f.vals, ctrl) IN
     IF f.rest = <<>>
     THEN Step("ret", IF f.of = "List" THEN ListV(vs) ELSE TagV(f.tag, vs),
               env, Tail(stack))
     ELSE Step("eval", Head(f.rest), f.env,
               <<[f EXCEPT !.vals = vs, !.rest = Tail(f.rest)]>> \o Tail(stack))
  /\ UNCHANGED <<heapVars, histVars>>

EvalIf ==
  /\ Evaluating("If")
  /\ Step("eval", ctrl.cond, env,
          <<[kind |-> "IfK", then |-> ctrl.then, else_ |-> ctrl.else_, env |-> env]>> \o stack)
  /\ UNCHANGED <<heapVars, histVars>>

ContIf ==
  /\ Returning("IfK")
  /\ LET f == Head(stack) IN
     IF ctrl.kind # "Bool"
     THEN Step("error", "If condition must be Bool", env, Tail(stack))
     ELSE Step("eval", IF ctrl.value THEN f.then ELSE f.else_, f.env, Tail(stack))
  /\ UNCHANGED <<heapVars, histVars>>

(******************************** applyFn **********************************)
Applying(k) == mode = "apply" /\ ctrl.fn.kind = k

\* The built-ins whose callable runs callbacks through applyFn.
IterBuiltins == {"map", "filter", "fold", "each"}

EmptyListErr == TagV("Err", <<StringV("empty list")>>)

\* The underlying callables of length, head, tail and concat.
CallPure(name, args) ==
  CASE name = "length" ->
         IF args[1].kind = "List" THEN IntV(Len(args[1].elements))
         ELSE IF args[1].kind = "String" THEN IntV(Len(args[1].value))
         ELSE RuntimeError("length expects List or String")
    [] name = "head" ->
         IF args[1].kind # "List" THEN RuntimeError("Expected List")
         ELSE IF args[1].elements = <<>> THEN EmptyListErr
         ELSE TagV("Ok", <<Head(args[1].elements)>>)
    [] name = "tail" ->
         IF args[1].kind # "List" THEN RuntimeError("Expected List")
         ELSE IF args[1].elements = <<>> THEN EmptyListErr
         ELSE TagV("Ok", <<ListV(Tail(args[1].elements))>>)
    [] name = "concat" ->
         IF args[1].kind # "String" \/ args[2].kind # "String"
         THEN RuntimeError("concat expects String")
         ELSE StringV(args[1].value \o args[2].value)

ApplyClosure ==
  /\ Applying("Closure")
  /\ LET c == closures[ctrl.fn.ref] IN
     /\ envs' = BindFresh(envs, c.env, c.param, ctrl.arg)
     /\ Step("eval", c.body, Len(envs) + 1, <<[kind |-> "BodyK"]>> \o stack)
  /\ applyCount' = applyCount + 1
  /\ UNCHANGED <<closures, builtins, transfers, fallbacks, invoked, nbind, recBound>>

\* return evalExpr(fn.body, newEnv) of applyFn.
ContBody ==
  /\ Returning("BodyK")
  /\ Step("ret", ctrl, env, Tail(stack))
  /\ UNCHANGED <<heapVars, histVars>>

\* Fewer arguments than the arity: a new built-in object carries the
\* extended copy of the accumulated arguments.
ApplyBuiltinPartial ==
  /\ Applying("BuiltinFn")
  /\ LET b == builtins[ctrl.fn.ref]
         applied == Append(b.applied, ctrl.arg) IN
     /\ ~Saturated(applied, b.arity)
     /\ builtins' = Append(builtins, [b EXCEPT !.applied = applied])
     /\ Step("ret", BuiltinV(Len(builtins) + 1), env, stack)
  /\ applyCount' = applyCount + 1
  /\ UNCHANGED <<envs, closures, transfers, fallbacks, invoked, nbind, recBound>>

ApplyBuiltinPure ==
  /\ Applying("BuiltinFn")
  /\ LET b == builtins[ctrl.fn.ref]
         applied == Append(b.applied, ctrl.arg) IN
     /\ Saturated(applied, b.arity)
     /\ b.name \notin IterBuiltins
     /\ invoked' = Append(invoked, [name |-> b.name, args |-> applied, fn |-> ctrl.fn.ref])
     /\ LET r == CallPure(b.name, applied) IN
        IF r.kind = "Error"
        THEN Step("error", r.msg, env, stack)
        ELSE Step("ret", r, env, stack)
  /\ applyCount' = applyCount + 1
  /\ UNCHANGED <<heapVars, transfers, fallbacks, nbind, recBound>>

\* map, filter, each: ([f, list]); fold: ([init, f, list]).  After
\* assertList the callable applies f to the first element (fold: to the
\* accumulator), or returns at once for an empty list.
ApplyBuiltinIter ==
  /\ Applying("BuiltinFn")
  /\ LET b == builtins[ctrl.fn.ref]
         applied == Append(b.applied, ctrl.arg) IN
     /\ Saturated(applied, b.arity)
     /\ b.name \in IterBuiltins
     /\ invoked' = Append(invoked, [name |-> b.name, args |-> applied, fn |-> ctrl.fn.ref])
     /\ LET list == applied[Len(applied)]
            f == IF b.name = "fold" THEN applied[2] ELSE applied[1]
            init == IF b.name = "fold" THEN applied[1] ELSE UnitV IN
        IF list.kind # "List"
        THEN Step("error", "Expected List", env, stack)
        ELSE IF list.elements = <<>>
        THEN Step("ret", CASE b.name \in {"map", "filter"} -> ListV(<<>>)
                           [] b.name = "fold" -> init
                           [] b.name = "each" -> UnitV,
                  env, stack)
        ELSE Step("apply",
                  [fn |-> f,
                   arg |-> IF b.name = "fold" THEN init ELSE Head(list.elements)],
                  env,
                  <<[kind |-> "IterK", name |-> b.name, f |-> f,
                     cur |-> Head(list.elements), rest |-> Tail(list.elements),
                     acc |-> IF b.name = "fold" THEN init ELSE <<>>,
                     phase |-> 1]>> \o stack)
  /\ applyCount' = applyCount + 1
  /\ UNCHANGED <<heapVars, transfers, fallbacks, nbind, recBound>>

ApplyNonFunction ==
  /\ mode = "apply"
  /\ ctrl.fn.kind \notin {"Closure", "BuiltinFn"}
  /\ Step("error", "Cannot call", env, stack)
  /\ applyCount' = applyCount + 1
  /\ UNCHANGED <<heapVars, transfers, fallbacks, invoked, nbind, recBound>>

\* A callback applied by map, filter, fold or each returned.
ContIter ==
  /\ Returning("IterK")
  /\ LET f == Head(stack)
         more == f.rest # <<>>
         next == [f EXCEPT !.cur = Head(f.rest), !.rest = Tail(f.rest), !.phase = 1] IN
     CASE f.name = "map" ->
            LET acc == Append(f.acc, ctrl) IN
            IF more
            THEN Step("apply", [fn |-> f.f, arg |-> next.cur], env,
                      <<[next EXCEPT !.acc = acc]>> \o Tail(stack))
            ELSE Step("ret", ListV(acc), env, Tail(stack))
       [] f.name = "filter" ->
            IF ctrl.kind # "Bool"
            THEN Step("error", "Expected Bool", env, Tail(stack))
            ELSE LET acc == IF ctrl.value THEN Append(f.acc, f.cur) ELSE f.acc IN
                 IF more
                 THEN Step("apply", [fn |-> f.f, arg |-> next.cur], env,
                           <<[next EXCEPT !.acc = acc]>> \o Tail(stack))
                 ELSE Step("ret", ListV(acc), env, Tail(stack))
       [] f.name = "each" ->
            IF more
            THEN Step("apply", [fn |-> f.f, arg |-> next.cur], env,
                      <<next>> \o Tail(stack))
            ELSE Step("ret", UnitV, env, Tail(stack))
       [] f.name = "fold" ->
            IF f.phase = 1
            THEN Step("apply", [fn |-> ctrl, arg |-> f.cur], env,
                      <<[f EXCEPT !.phase = 2]>> \o Tail(stack))
            ELSE IF more
            THEN Step("apply", [fn |-> f.f, arg |-> ctrl], env,
                      <<[next EXCEPT !.acc = ctrl]>> \o Tail(stack))
            ELSE Step("ret", ctrl, env, Tail(stack))
  /\ UNCHANGED <<heapVars, histVars>>

(********************* unwinding and the boundary **************************)
\* Variant: applyFn runs the body through evaluate, which hands an
\* EarlyReturn back as an ordinary value.
PropagateSwallowedByApply ==
  /\ mode = "throw"
  /\ stack # <<>>
  /\ ~Intercepts(Head(stack))
  /\ IF Head(stack).kind = "BodyK"
     THEN Step("ret", ctrl, env, Tail(stack))
     ELSE Step("throw", ctrl, env, Tail(stack))
  /\ UNCHANGED <<heapVars, histVars>>

\* An EarlyReturn leaves an activation that has no try block for it:
\* the activation is abandoned.
Propagate ==
  /\ mode = "throw"
  /\ stack # <<>>
  /\ ~Intercepts(Head(stack))
  /\ Step("throw", ctrl, env, Tail(stack))
  /\ UNCHANGED <<heapVars, histVars>>

\* An Error leaves any activation; the Catch case rethrows it.
PropagateError ==
  /\ mode = "error"
  /\ stack # <<>>
  /\ Step("error", ctrl, env, Tail(stack))
  /\ UNCHANGED <<heapVars, histVars>>

\* evaluate: return evalExpr(expr, env)
EvaluateReturn ==
  /\ mode = "ret"
  /\ stack = <<>>
  /\ mode' = "done"
  /\ result' = [kind |-> "value", value |-> ctrl]
  /\ UNCHANGED <<prog, exceptEval, ctrl, env, stack, heapVars, histVars>>

\* evaluate: catch (e) { if (e instanceof EarlyReturn) return e.value; }
EvaluateEarlyReturn ==
  /\ mode = "throw"
  /\ stack = <<>>
  /\ mode' = "done"
  /\ result' = [kind |-> "value", value |-> ctrl]
  /\ transfers' = [transfers EXCEPT ![Len(transfers)].caughtBy = -1,
                                    ![Len(transfers)].applyAtCatch = applyCount]
  /\ UNCHANGED <<prog, exceptEval, ctrl, env, stack, heapVars, fallbacks, invoked, applyCount, nbind, recBound>>

\* evaluate: throw e
EvaluateRethrow ==
  /\ mode = "error"
  /\ stack = <<>>
  /\ mode' = "done"
  /\ result' = [kind |-> "throws", value |-> ctrl]
  /\ UNCHANGED <<prog, exceptEval, ctrl, env, stack, heapVars, histVars>>

(***************************************************************************)
(* The programs evaluate is run on.  They are expression trees as the      *)
(* parser builds them: calls and lambdas are single-argument, a bare       *)
(* `catch` at the right of a pipe has the unit placeholder as its expr.    *)
(***************************************************************************)
MaxDepth == 2

OkE(e) == Tag("Ok", <<e>>)

ErrE(s) == Tag("Err", <<StringLit(s)>>)

Err0 == Tag("Err", <<>>)

BareCatch(n, f) == Catch(UnitLit, n, f)

\* Expressions that return or raise each shape of value.
Protected ==
  { IntLit(1), OkE(IntLit(1)), ErrE("a"), Err0,
    Tag("Ok", <<IntLit(1), IntLit(2)>>), Tag("Err", <<StringLit("a"), StringLit("b")>>),
    Try(OkE(IntLit(1))), Try(ErrE("a")), Try(Err0), Try(IntLit(1)),
    Try(Tag("Err", <<StringLit("a"), StringLit("b")>>)),
    Ident("nope") }

\* Fallbacks over the error parameter e: a constant, the parameter, a
\* returned Err, and an unwrap that raises again.
Fallbacks ==
  { IntLit(0), Ident("e"), ErrE("f"),
    Try(Tag("Err", <<BinOp("++", Ident("e"), StringLit("!"))>>)) }

OuterFallbacks == { Ident("o"), IntLit(9) }

CatchPrograms ==
  {Catch(p, "e", f) : p \in Protected, f \in Fallbacks}
  \cup {Pipe(p, BareCatch("e", f)) : p \in Protected, f \in Fallbacks}
  \cup {Catch(Catch(p, "e", f), "o", g) :
          p \in Protected, f \in Fallbacks, g \in OuterFallbacks}
  \cup {Try(p) : p \in Protected}

\* let parse = fn s -> match s { "2" -> Ok(2), _ -> Err("bad") } in ...
ParseFn ==
  Fn("s", Match(Ident("s"),
     << Case(StringPat("2"), OkE(IntLit(2))), Case(WildcardPat, ErrE("bad")) >>))

Double == Fn("n", BinOp("*", Ident("n"), IntLit(2)))

Unwrap == Fn("r", Try(Ident("r")))

Results == { OkE(IntLit(1)), ErrE("a"), Err0 }

\* Pipelines and applications with an unwrap in the middle, with and
\* without a binder at the end.
PipePrograms ==
  LET stages(s) == Pipe(Pipe(StringLit(s), Try(Ident("parse"))), Double) IN
  {Let("parse", ParseFn, b) : b \in
     {stages("2"), stages("bad"),
      Pipe(stages("2"), BareCatch("e", IntLit(0))),
      Pipe(stages("bad"), BareCatch("e", IntLit(0))),
      Pipe(stages("bad"), BareCatch("e", Ident("e"))),
      Pipe(Pipe(StringLit("2"), Ident("parse")), Double),
      Pipe(IntLit(1), Try(IntLit(2))),
      Pipe(IntLit(1), Try(Fn("x", Ident("x"))))}}
  \cup {Call(Double, Call(Unwrap, r)) : r \in Results}
  \cup {Catch(Call(Double, Call(Unwrap, r)), "e", Ident("e")) : r \in Results}
  \cup {Call(Call(Unwrap, r), IntLit(1)) : r \in Results}
  \cup {Pipe(Pipe(r, Unwrap), Double) : r \in Results}
  \cup {Catch(BinOp("+", IntLit(1), Try(r)), "e", IntLit(0)) : r \in Results}
  \cup {If(BoolLit(b), Try(r), IntLit(3)) : b \in BOOLEAN, r \in Results}
  \cup {If(IntLit(1), IntLit(2), IntLit(3)), Call(IntLit(1), IntLit(2)),
        BinOp("+", IntLit(1), StringLit("a")),
        BinOp("&&", BoolLit(TRUE), BinOp("<=", IntLit(1), IntLit(2)))}

Call2(f, a, b) == Call(Call(f, a), b)

Call3(f, a, b, c) == Call(Call(Call(f, a), b), c)

Lists ==
  { ListE(<<>>), ListE(<<OkE(IntLit(1))>>), ListE(<<OkE(IntLit(1)), ErrE("a"), OkE(IntLit(3))>>),
    ListE(<<Err0, OkE(IntLit(2))>>) }

Add == Fn("a", Fn("b", BinOp("+", Ident("a"), Ident("b"))))

\* The built-in library: callbacks that raise, partial application, every
\* arity.
BuiltinPrograms ==
  {Call2(Ident(m), Unwrap, l) : m \in {"map", "each"}, l \in Lists}
  \cup {Catch(Call2(Ident("map"), Unwrap, l), "e", Ident("e")) : l \in Lists}
  \cup {Pipe(l, Call(Ident("map"), Unwrap)) : l \in Lists}
  \cup {Catch(Call(Double, Pipe(Pipe(l, Call(Ident("map"), Unwrap)), Ident("length"))),
               "e", Ident("e")) : l \in Lists}
  \cup {Call2(Ident("filter"), Fn("x", BinOp("<=", Try(Ident("x")), IntLit(1))), l) : l \in Lists}
  \cup {Call2(Ident("filter"), Fn("x", Ident("x")), l) : l \in Lists}
  \cup {Call3(Ident("fold"), IntLit(0), Fn("a", Fn("b", BinOp("+", Ident("a"), Try(Ident("b"))))), l) :
          l \in Lists}
  \cup {Call3(Ident("fold"), IntLit(0), Add, ListE(<<IntLit(1), IntLit(2)>>)),
        Call2(Ident("map"), Call(Ident("concat"), StringLit("a")),
              ListE(<<StringLit("x"), StringLit("y")>>)),
        Let("c", Call(Ident("concat"), StringLit("a")),
            BinOp("++", Call(Ident("c"), StringLit("b")), Call(Ident("c"), StringLit("c")))),
        Let("g", Call(Ident("fold"), IntLit(0)),
            Let("h", Call(Ident("g"), Add),
                BinOp("+", Call(Ident("h"), ListE(<<IntLit(1)>>)),
                           Call(Ident("h"), ListE(<<IntLit(2), IntLit(3)>>))))),
        Call2(Ident("concat"), StringLit("a"), IntLit(1)),
        Call2(Ident("map"), Ident("head"), ListE(<<ListE(<<>>), ListE(<<IntLit(1)>>)>>)),
        Call2(Ident("map"), Unwrap, IntLit(1)),
        Try(Call(Ident("tail"), ListE(<<IntLit(1), IntLit(2)>>))),
        Call(Ident("tail"), IntLit(1))}
  \cup {Call(Ident(b), a) : b \in {"length", "head", "tail"},
          a \in {ListE(<<>>), ListE(<<IntLit(1)>>), StringLit("ab"), IntLit(1)}}
  \cup {Pipe(a, Try(Ident("head"))) : a \in {ListE(<<>>), ListE(<<IntLit(1)>>)}}
  \cup {Pipe(Pipe(a, Try(Ident("head"))), BareCatch("e", Ident("e"))) :
          a \in {ListE(<<>>), ListE(<<IntLit(1)>>)}}

\* let rec sum = fn n -> match n { 0 -> 0, m -> m + sum(m - 1) } in sum(k)
SumFn ==
  Fn("n", Match(Ident("n"),
     << Case(IntPat(0), IntLit(0)),
        Case(IdentPat("m"),
             BinOp("+", Ident("m"), Call(Ident("sum"), BinOp("-", Ident("m"), IntLit(1))))) >>))

\* Closures, rebinding and recursion.
ClosurePrograms ==
  {LetRec("sum", SumFn, Call(Ident("sum"), IntLit(k))) : k \in 0..MaxDepth}
  \cup {Let("sum", SumFn, Call(Ident("sum"), IntLit(k))) : k \in 0..1}
  \cup {Let("y", IntLit(1), Let("f", Fn("x", Ident("y")), b)) : b \in
          { Let("y", IntLit(2), Call(Ident("f"), IntLit(0))),
            LetRec("y", IntLit(2), Call(Ident("f"), IntLit(0))),
            LetRec("y", Ident("f"), Call(Ident("f"), IntLit(0))),
            LetRec("g", Ident("f"), Call(Ident("f"), IntLit(0))),
            Call(Fn("y", Call(Ident("f"), Ident("y"))), IntLit(3)),
            Match(OkE(IntLit(4)),
                  <<Case(TagPat("Ok", <<IdentPat("y")>>), Call(Ident("f"), Ident("y")))>>),
            Pipe(ErrE("z"), BareCatch("y", Call(Ident("f"), Ident("y")))) }}
  \cup {LetRec("f", Fn("x", Ident("f")), Call2(Ident("f"), IntLit(1), IntLit(2))),
        LetRec("f", IntLit(1), Ident("f")),
        LetRec("f", Fn("a", Fn("b", Ident("f"))),
               LetRec("g", Ident("f"), Call2(Ident("g"), IntLit(1), IntLit(2)))),
        Match(Tag("P", <<IntLit(1), StringLit("s")>>),
              << Case(TagPat("P", <<IntPat(2), WildcardPat>>), IntLit(0)),
                 Case(TagPat("Q", <<>>), IntLit(1)),
                 Case(TagPat("P", <<IdentPat("a"), StringPat("s")>>), Ident("a")) >>),
        Match(BoolLit(TRUE), <<Case(BoolPat(FALSE), IntLit(0))>>)}

\* Right operands of && and || that return, apply a function, raise an
\* error and raise a transfer.
RightOperands ==
  { BoolLit(TRUE), BoolLit(FALSE), Call(Fn("x", BoolLit(TRUE)), IntLit(0)),
    Ident("nope"), Try(ErrE("a")), Try(OkE(BoolLit(FALSE))) }

BoolPrograms ==
  {BinOp(op, BoolLit(b), r) : op \in {"&&", "||"}, b \in BOOLEAN, r \in RightOperands}
  \cup {BinOp(op, Ident("nope"), Try(ErrE("a"))) : op \in {"&&", "||"}}
  \cup {BinOp(op, Try(ErrE("a")), Ident("nope")) : op \in {"&&", "||"}}

Programs ==
  CatchPrograms \cup PipePrograms \cup BuiltinPrograms \cup ClosurePrograms
  \cup BoolPrograms

(***************************************************************************)
(* evaluate(prog, createPrelude()).                                        *)
(***************************************************************************)
Init ==
  /\ prog \in Programs
  /\ mode = "eval"
  /\ ctrl = prog
  /\ env = 1
  /\ stack = <<>>
  /\ envs = <<PreludeEnv>>
  /\ closures = <<>>
  /\ builtins = createPrelude
  /\ result = [kind |-> "none"]
  /\ transfers = <<>>
  /\ fallbacks = <<>>
  /\ invoked = <<>>
  /\ applyCount = 0
  /\ nbind = 0
  /\ recBound = {}
  /\ IdleParse
  /\ IdleLex
  /\ IdleUnify
  /\ IdleInfer

Next ==
  \/ EvalLit \/ EvalIdent \/ EvalBinOp \/ ContBinOpL \/ ContBinOpR
  \/ EvalLet \/ ContLet \/ EvalFn \/ EvalCall \/ ContCallFn \/ ContCallArg
  \/ EvalMatch \/ ContMatch \/ EvalTry \/ ContTry
  \/ EvalCatch \/ ContCatch \/ ContCatchFallback \/ CatchTransfer
  \/ EvalPipeCatch \/ EvalPipeTry \/ ContPipeTryL \/ ContPipeTryF \/ ContPipeTryR
  \/ EvalPipe \/ ContPipeL \/ ContPipeR \/ EvalElems \/ ContElems
  \/ EvalIf \/ ContIf
  \/ ApplyClosure \/ ContBody \/ ApplyBuiltinPartial \/ ApplyBuiltinPure
  \/ ApplyBuiltinIter \/ ApplyNonFunction \/ ContIter
  \/ Propagate \/ PropagateError
  \/ EvaluateReturn \/ EvaluateEarlyReturn \/ EvaluateRethrow

Spec == Init /\ [][Next]_vars

(***************************************************************************)
(* new Parser(tokens).parse() on token arrays as the lexer ends them, with *)
(* an EOF token.  The arrays are a pipeline  x |> fn n -> BODY |> g  for   *)
(* every BODY built from atoms by at most MaxNest rounds of the forms of    *)
(* the language.                                                           *)
(***************************************************************************)
MaxNest == 2

tX == Tok("Ident", "x")

tN == Tok("Ident", "n")

tM == Tok("Ident", "m")

tY == Tok("Ident", "y")

tE == Tok("Ident", "e")

tF == Tok("Ident", "f")

tG == Tok("Ident", "g")

tTwo == Tok("Int", "2")

tStar == Tok("Star", "*")

tPlus == Tok("Plus", "+")

tMinus == Tok("Minus", "-")

tQuestion == Tok("Question", "?")

tFn == Tok("Fn", "fn")

tArrow == Tok("Arrow", "->")

tLet == Tok("Let", "let")

tEq == Tok("Eq", "=")

tIn == Tok("In", "in")

tCatch == Tok("Catch", "catch")

tPipe == Tok("Pipe", "|>")

tLParen == Tok("LParen", "(")

tRParen == Tok("RParen", ")")

tEOF == Tok("EOF", "")

Atoms == {<<tN>>, <<tTwo>>}

Forms(B) ==
  {b \o <<tStar>> \o a : b \in B, a \in Atoms}
    \cup {a \o <<tPlus>> \o b : b \in B, a \in Atoms}
    \cup {b \o <<tQuestion>> : b \in B}
    \cup {<<tMinus>> \o b : b \in B}
    \cup {<<tFn, tM, tArrow>> \o b : b \in B}
    \cup {<<tLet, tY, tEq>> \o a \o <<tIn>> \o b : b \in B, a \in Atoms}
    \cup {<<tLet, tY, tEq>> \o b \o <<tIn>> \o a : b \in B, a \in Atoms}
    \cup {<<tCatch, tE, tArrow>> \o b : b \in B}
    \cup {<<tLParen>> \o b \o <<tRParen>> : b \in B}
    \cup {<<tLParen>> \o b \o <<tPipe>> \o a \o <<tRParen>> : b \in B, a \in Atoms}
    \cup {<<tF, tLParen>> \o b \o <<tRParen>> : b \in B}
    \cup {b \o <<tPipe>> \o a : b \in B, a \in Atoms}

RECURSIVE Bodies(_)
Bodies(d) == IF d = 0 THEN Atoms ELSE Bodies(d - 1) \cup Forms(Bodies(d - 1))

StagePrefix == <<tX, tPipe, tFn, tN, tArrow>>

StageSuffix == <<tPipe, tG, tEOF>>

Stage(body) == StagePrefix \o body \o StageSuffix

StageInputs == {Stage(b) : b \in Bodies(MaxNest)}

\* Operator chains  a op b op c ...  of at most MaxOps infix operators of
\* the binding-power table.
MaxOps == 2

InfixKinds ==
  {"Pipe", "PipePipe", "AmpAmp", "EqEq", "BangEq", "Lt", "Gt", "LtEq", "GtEq",
   "PlusPlus", "Plus", "Minus", "Star", "Slash", "Percent", "Dot"}

OpLexeme(kind) ==
  CASE kind = "Pipe" -> "|>"
    [] kind = "Dot" -> "."
    [] OTHER -> tokenToOp(kind)

OperandNames == <<"a", "b", "c", "d", "e", "h">>

Chain(ops) ==
  [i \in 1..(2 * Len(ops) + 1) |->
     IF i % 2 = 1 THEN Tok("Ident", OperandNames[(i + 1) \div 2])
     ELSE Tok(ops[i \div 2], OpLexeme(ops[i \div 2]))]

ChainInputs ==
  UNION {{Chain(ops) \o <<tEOF>> : ops \in [1..k -> InfixKinds]} : k \in 1..MaxOps}

\* Every array of at most MaxTokens tokens of the kinds below, then EOF.
MaxTokens == 3

KindLexeme(kind) ==
  CASE kind = "Ident" -> "n"
    [] kind = "Int" -> "2"
    [] kind = "UpperIdent" -> "Ok"
    [] kind = "Question" -> "?"
    [] kind = "LParen" -> "("
    [] kind = "RParen" -> ")"
    [] kind = "LBrace" -> "{"
    [] kind = "RBrace" -> "}"
    [] kind = "LBracket" -> "["
    [] kind = "RBracket" -> "]"
    [] kind = "Comma" -> ","
    [] kind = "Colon" -> ":"
    [] kind = "Arrow" -> "->"
    [] kind = "Eq" -> "="
    [] kind = "Underscore" -> "_"
    [] kind = "Fn" -> "fn"
    [] kind = "Let" -> "let"
    [] kind = "In" -> "in"
    [] kind = "Match" -> "match"
    [] kind = "Catch" -> "catch"
    [] OTHER -> OpLexeme(kind)

AnyKinds ==
  {"Ident", "Int", "UpperIdent", "Question", "LParen", "RParen", "LBrace", "RBrace",
   "LBracket", "RBracket", "Comma", "Colon", "Arrow", "Eq", "Underscore", "Fn",
   "Let", "In", "Match", "Catch", "Pipe", "Plus", "Minus", "Dot"}

AnyTokens(ks) == [i \in 1..Len(ks) |-> Tok(ks[i], KindLexeme(ks[i]))] \o <<tEOF>>

TokenInputs == StageInputs \cup ChainInputs

\* No program is being evaluated.
IdleEval ==
  /\ prog = UnitLit
  /\ mode = "idle"
  /\ ctrl = UnitLit
  /\ env = 1
  /\ stack = <<>>
  /\ envs = <<PreludeEnv>>
  /\ closures = <<>>
  /\ builtins = createPrelude
  /\ result = [kind |-> "none"]
  /\ transfers = <<>>
  /\ fallbacks = <<>>
  /\ invoked = <<>>
  /\ applyCount = 0
  /\ nbind = 0
  /\ recBound = {}

\* const parser = new Parser(tokens); parser.parse()
Parse ==
  /\ tokens # <<>>
  /\ tree = NotParsed
  /\ tree' = parse(tokens)
  /\ UNCHANGED <<tokens, exceptParse>>

InitParse ==
  /\ \/ tokens \in TokenInputs
     \/ \E k \in 0..MaxTokens : \E ks \in [1..k -> AnyKinds] : tokens = AnyTokens(ks)
  /\ tree = NotParsed
  /\ IdleEval
  /\ IdleLex
  /\ IdleUnify
  /\ IdleInfer

NextParse == Parse

SpecParse == InitParse /\ [][NextParse]_vars

(***************************************************************************)
(* lex(source), then lex of the lexemes of its tokens other than the       *)
(* sentinel joined by a whitespace character, on every source of at most   *)
(* MaxSource characters of SourceChars.                                    *)
(***************************************************************************)
MaxSource == 4

SourceChars == {"i", "n", "A", "_", "1", ".", "-", "\"", " ", "\n", "|", ">"}

RECURSIVE JoinWith(_, _)
\* lexemes.join(sep)
JoinWith(lexemes, sep) ==
  IF lexemes = <<>> THEN <<>>
  ELSE IF Len(lexemes) = 1 THEN lexemes[1]
  ELSE lexemes[1] \o <<sep>> \o JoinWith(Tail(lexemes), sep)

\* lex(source).filter(t => t.kind !== EOF).map(t => t.lexeme)
lexemes(toks) ==
  LET kept == SelectSeq(toks, LAMBDA t : t.kind # "EOF") IN
  [i \in 1..Len(kept) |-> kept[i].lexeme]

Lex ==
  /\ lexed = NotLexed
  /\ lexed' = lex(source)
  /\ UNCHANGED <<source, relexed, exceptLex>>

Relex ==
  /\ lexed # NotLexed
  /\ lexed.ok
  /\ relexed = NotLexed
  /\ \E sep \in Whitespace : relexed' = lex(JoinWith(lexemes(lexed.tokens), sep))
  /\ UNCHANGED <<source, lexed, exceptLex>>

InitLex ==
  /\ \E k \in 0..MaxSource : source \in [1..k -> SourceChars]
  /\ lexed = NotLexed
  /\ relexed = NotLexed
  /\ IdleEval
  /\ IdleParse
  /\ IdleUnify
  /\ IdleInfer

NextLex == Lex \/ Relex

SpecLex == InitLex /\ [][NextLex]_vars

(***************************************************************************)
(* A caller that starts from the empty substitution and makes at most      *)
(* MaxCalls unify calls on types of UnifyTypes, stopping at the first call *)
(* that throws.                                                            *)
(***************************************************************************)
MaxCalls == 2

UnifyTypes ==
  {TVar(0), TVar(1), TInt, TString,
   TFn(TVar(0), TInt), TFn(TInt, TVar(1)), TFn(TVar(1), TVar(0)),
   TList(TVar(0)), TList(TInt),
   TTuple(<<TVar(0), TInt>>), TTuple(<<TInt, TVar(1)>>), TTuple(<<TInt, TInt, TInt>>),
   TResult(TVar(1)), TResult(TString),
   TRecord(<<Field("x", TVar(0))>>, NoRest), TRecord(<<Field("x", TInt)>>, NoRest),
   TRecord(<<Field("y", TString)>>, NoRest),
   TRecord(<<Field("x", TInt), Field("y", TVar(1))>>, NoRest),
   TRecord(<<Field("x", TInt)>>, TVar(1)),
   TTag("None", <<>>), TTag("Some", <<TInt>>), TTag("Some", <<TVar(0)>>),
   TTag("Some", <<TString>>), TTag("Pair", <<TInt, TVar(1)>>)}

Called(t1, t2, r) == [t1 |-> t1, t2 |-> t2, ok |-> r.ok]

\* No call made so far has thrown.
NoneThrew == IF ucall = NoCall THEN TRUE ELSE ucall.ok

\* subst = unify(t1, t2, subst)
UnifyReturns ==
  /\ ncalls < MaxCalls
  /\ NoneThrew
  /\ \E t1, t2 \in UnifyTypes :
       /\ unify(t1, t2, subst).ok
       /\ subst' = unify(t1, t2, subst).subst
       /\ ucall' = Called(t1, t2, unify(t1, t2, subst))
  /\ ncalls' = ncalls + 1
  /\ UNCHANGED exceptUnify

\* unify(t1, t2, subst) throws; the Map keeps what the call had set.
UnifyThrows ==
  /\ ncalls < MaxCalls
  /\ NoneThrew
  /\ \E t1, t2 \in UnifyTypes :
       /\ ~unify(t1, t2, subst).ok
       /\ subst' = unify(t1, t2, subst).subst
       /\ ucall' = Called(t1, t2, unify(t1, t2, subst))
  /\ ncalls' = ncalls + 1
  /\ UNCHANGED exceptUnify

InitUnify ==
  /\ IdleUnify
  /\ IdleEval
  /\ IdleParse
  /\ IdleLex
  /\ IdleInfer

NextUnify == UnifyReturns \/ UnifyThrows

SpecUnify == InitUnify /\ [][NextUnify]_vars

(***************************************************************************)
(* Inference runs: the test helper typeOf, which resets the counter and    *)
(* calls infer(expr) from the empty env, and a ReplSession that is given   *)
(* at most MaxInputs inputs.  A top-level `let name = value` of the        *)
(* session takes its value from LetValues, expressions whose evaluation    *)
(* returns, so the binding is always recorded when inference returned.     *)
(***************************************************************************)
MaxInputs == 2

xE == Ident("x")

IdFn == Fn("x", xE)

KFn == Fn("x", Fn("y", xE))

Five == IntLit(5)

Hi == StringLit("hi")

\* let id = fn(x) -> x in let a = id(5) in id("hi")
PolyUse == Let("id", IdFn, Let("a", Call(Ident("id"), Five), Call(Ident("id"), Hi)))

InferExprs ==
  { PolyUse,
    Let("id", IdFn, Tuple(<<Call(Ident("id"), Five), Call(Ident("id"), Hi)>>)),
    LetRec("id", IdFn, Tuple(<<Call(Ident("id"), Five), Call(Ident("id"), Hi)>>)),
    Let("k", KFn, Call(Call(Ident("k"), Five), Hi)),
    Let("p", ListE(<<>>), Tuple(<<Ident("p"), Ident("p")>>)),
    Let("n", Five, BinOp("+", Ident("n"), Ident("n"))),
    Fn("x", Let("y", xE, Ident("y"))),
    Fn("x", Let("y", Fn("z", xE), Ident("y"))),
    Fn("x", Let("y", Fn("z", Ident("z")), Call(Ident("y"), xE))),
    Fn("x", Let("y", Fn("z", Ident("z")), Tuple(<<Call(Ident("y"), xE), Call(Ident("y"), Five)>>))),
    Fn("x", Fn("x", Let("y", Fn("a", Ident("a")), Ident("y")))),
    Fn("x", Fn("x", Let("y", xE, Tuple(<<Ident("y"), Ident("y")>>)))),
    Let("u", KFn, Fn("c", Let("v", Call(Ident("u"), Ident("c")), Ident("v")))),
    Fn("g", Let("h", Call(Ident("g"), Five), Ident("h"))),
    Fn("f", Tuple(<<Call(Ident("f"), Five), Call(Ident("f"), Hi)>>)),
    Fn("a", Fn("b", Ident("a"))),
    If(BoolLit(TRUE), IdFn, Fn("y", Five)),
    If(Five, Five, Five),
    BinOp("+", Five, Hi),
    BinOp("++", Hi, Hi),
    BinOp("<", Five, Five),
    BinOp("&&", BoolLit(TRUE), Five),
    UnaryOp("-", Five), UnaryOp("-", FloatLit(1)), UnaryOp("!", BoolLit(TRUE)), UnaryOp("-", Hi),
    ListE(<<Five, Hi>>), ListE(<<Five, Five>>),
    Record(<<[name |-> "x", value |-> Five]>>),
    FieldAccess(Record(<<[name |-> "x", value |-> Five]>>), "x"),
    FieldAccess(Record(<<[name |-> "x", value |-> Five]>>), "y"),
    FieldAccess(Five, "x"),
    Fn("r", FieldAccess(Ident("r"), "x")),
    Fn("r", Tuple(<<FieldAccess(Ident("r"), "x"), FieldAccess(Ident("r"), "y")>>)),
    Tag("Ok", <<Five>>), Tag("Err", <<Hi>>), Tag("Some", <<Five>>), UnitLit,
    Fn("x", If(BoolLit(TRUE), xE, Tag("Some", <<xE>>))),
    Fn("x", If(BoolLit(TRUE), Tag("Some", <<xE>>), Tag("Some", <<xE>>))),
    Try(Tag("Ok", <<Five>>)), Try(Five),
    Catch(Tag("Err", <<Hi>>), "e", Ident("e")),
    Pipe(Five, IdFn), Pipe(Tag("Ok", <<Five>>), Catch(UnitLit, "e", Five)),
    Pipe(Five, Try(Fn("n", Tag("Ok", <<Ident("n")>>)))),
    Match(Five, <<Case(IntPat(1), Hi), Case(IdentPat("n"), Hi), Case(WildcardPat, Hi)>>),
    Match(Tag("Ok", <<Five>>),
          <<Case(TagPat("Ok", <<IdentPat("v")>>), Ident("v")),
            Case(TagPat("Err", <<WildcardPat>>), Five)>>),
    Match(Tuple(<<Five, Hi>>),
          <<Case(TuplePat(<<IdentPat("a"), StringPat("s")>>), Ident("a")),
            Case(TagPat("None", <<>>), Five),
            Case(BoolPat(TRUE), Hi)>>),
    Ident("map") }

LetNames == {"f", "g"}

LetValues == {IdFn, KFn, Five, ListE(<<>>), Fn("x", ListE(<<xE>>))}

\* What the session's inputs use of the names it has bound.
ReplExprs ==
  InferExprs \cup
  { Call(Ident("f"), Five),
    Tuple(<<Call(Ident("f"), Five), Call(Ident("f"), Hi)>>),
    Call(Let("id", IdFn, Ident("id")), Ident("f")),
    Fn("a", Fn("b", Tuple(<<Call(Ident("f"), Ident("a")), Ident("b")>>))),
    Fn("a", Let("id", Fn("b", Ident("b")),
                Tuple(<<Call(Ident("id"), Five), Call(Ident("id"), Hi), Ident("g")>>))),
    Tuple(<<Ident("f"), Ident("g")>>) }

Ran(entry, expr, tenv, r) == [entry |-> entry, expr |-> expr, env |-> tenv, outcome |-> r]

\* resetTypeVarCounter(); infer(parse(lex(source)))
TypeOf ==
  /\ ninputs = 0
  /\ run = NoRun
  /\ \E expr \in InferExprs : run' = Ran("typeOf", expr, EmptyMap, infer(expr, EmptyMap, FALSE, 0))
  /\ UNCHANGED <<typeEnv, ninputs, exceptInfer>>

\* The run, if any, was one of the session.
InSession == IF run = NoRun THEN TRUE ELSE run.entry # "typeOf"

\* ReplSession.eval on an expression: infer(ast, new Map(this.typeEnv), trimmed)
ReplExpr ==
  /\ ninputs < MaxInputs
  /\ InSession
  /\ \E expr \in ReplExprs : run' = Ran("eval", expr, typeEnv, infer(expr, typeEnv, TRUE, 0))
  /\ ninputs' = ninputs + 1
  /\ UNCHANGED <<typeEnv, exceptInfer>>

\* handleLetBinding on `let ... in ...`: infer(ast, undefined, input)
ReplLetIn ==
  /\ ninputs < MaxInputs
  /\ InSession
  /\ \E expr \in {e \in InferExprs : e.kind = "Let"} :
       run' = Ran("letIn", expr, EmptyMap, infer(expr, EmptyMap, TRUE, 0))
  /\ ninputs' = ninputs + 1
  /\ UNCHANGED <<typeEnv, exceptInfer>>

LetBound(name, r) == IF r.ok THEN MapSet(typeEnv, name, Scheme(<<>>, r.type)) ELSE typeEnv

\* handleLetBinding on `let [rec] name = value`: the tree of
\* `let name = value in name` is inferred and the type recorded.
ReplLet ==
  /\ ninputs < MaxInputs
  /\ InSession
  /\ \E name \in LetNames, value \in LetValues, rec \in BOOLEAN :
       /\ run' = Ran("let", [Let(name, value, Ident(name)) EXCEPT !.rec = rec], EmptyMap,
                     infer([Let(name, value, Ident(name)) EXCEPT !.rec = rec], EmptyMap, TRUE, 0))
       /\ typeEnv' = LetBound(name, infer([Let(name, value, Ident(name)) EXCEPT !.rec = rec],
                                          EmptyMap, TRUE, 0))
  /\ ninputs' = ninputs + 1
  /\ UNCHANGED exceptInfer

InitInfer ==
  /\ IdleInfer
  /\ IdleEval
  /\ IdleParse
  /\ IdleLex
  /\ IdleUnify

NextInfer == TypeOf \/ ReplExpr \/ ReplLetIn \/ ReplLet

SpecInfer == InitInfer /\ [][NextInfer]_vars

(***************************************************************************)
(* runSource(source) from the point where lex and parse have returned the  *)
(* tree prog: the type check, then evaluate(prog, createPrelude()) unless  *)
(* the check made runSource return.                                        *)
(***************************************************************************)
TypedPrograms ==
  { PolyUse,
    BinOp("+", Five, Hi),
    BinOp("+", Five, Five),
    ListE(<<Five, Hi>>),
    If(Five, Five, Hi),
    If(BoolLit(TRUE), Five, Hi),
    Let("x", Five, Call(xE, IntLit(3))),
    Try(Hi),
    Fn("x", If(BoolLit(TRUE), xE, Tag("Some", <<xE>>))),
    Pipe(Tag("Err", <<Five>>), BareCatch("e", BinOp("++", Ident("e"), Hi))),
    Pipe(Tag("Err", <<Hi>>), BareCatch("e", BinOp("++", Ident("e"), Hi))),
    Catch(BinOp("+", Five, Try(Tag("Err", <<BoolLit(TRUE)>>))), "e", Ident("e")) }

RunPrograms == Programs \cup TypedPrograms

\* catch (e) { if (e instanceof RillError) return { error: e.message } }
Blocks(r) == ~r.ok /\ r.error.class = "RillError"

TypeChecked(r) ==
  /\ run' = Ran("runSource", prog, EmptyMap, r)
  /\ IF Blocks(r)
     THEN /\ mode' = "done"
          /\ result' = [kind |-> "typeError", value |-> r.error.message]
          /\ ctrl' = ctrl
     ELSE /\ mode' = "eval"
          /\ ctrl' = prog
          /\ result' = result

\* resetTypeVarCounter(); try { infer(ast, undefined, source) } catch ...;
\* then evaluate(ast, createPrelude()) is entered.
RunSource ==
  /\ mode = "idle"
  /\ run = NoRun
  /\ TypeChecked(infer(prog, EmptyMap, TRUE, 0))
  /\ UNCHANGED <<prog, env, stack, heapVars, histVars, parseVars, lexVars, unifyVars,
                 typeEnv, ninputs>>

InitRun ==
  /\ prog \in RunPrograms
  /\ mode = "idle"
  /\ ctrl = UnitLit
  /\ env = 1
  /\ stack = <<>>
  /\ envs = <<PreludeEnv>>
  /\ closures = <<>>
  /\ builtins = createPrelude
  /\ result = [kind |-> "none"]
  /\ transfers = <<>>
  /\ fallbacks = <<>>
  /\ invoked = <<>>
  /\ applyCount = 0
  /\ nbind = 0
  /\ recBound = {}
  /\ IdleParse
  /\ IdleLex
  /\ IdleUnify
  /\ IdleInfer

NextRun == RunSource \/ Next

SpecRun == InitRun /\ [][NextRun]_vars

(***************************************************************************)
(* A pipe and the application it stands for.  For operands l and r,        *)
(* evaluate is called four times, each time with a new createPrelude():    *)
(* on l, on r, on  l |> r  and on  r(l) .  run keeps the outcomes of the   *)
(* calls that ended.                                                       *)
(***************************************************************************)
\* Operands that return a value, a function, raise an Error and raise an
\* EarlyReturn.  None is a bare `catch` or a bare unwrap.
PipeOperands ==
  { IntLit(1), ListE(<<IntLit(1)>>), Double, Unwrap, Ident("length"),
    Fn("x", Fn("y", Ident("x"))),
    Ident("nope"), Call(IntLit(1), IntLit(2)),
    Call(Try(ErrE("a")), IntLit(1)), Call(Unwrap, ErrE("b")) }

PipePairs ==
  {Pipe(l, r) : l \in PipeOperands, r \in PipeOperands}
  \cup {Pipe(p, Fn("x", Ident("x"))) : p \in Programs}

\* The expression of the k-th call.
PhaseExpr(p, k) ==
  CASE k = 1 -> p.left
    [] k = 2 -> p.right
    [] k = 3 -> p
    [] k = 4 -> Call(p.right, p.left)

ReifyDepth == 2

\* A value with the closures and built-in objects it refers to written
\* out, so that values of two heaps can be compared.
RECURSIVE Reify(_, _)
Reify(v, d) ==
  CASE v.kind = "List" -> ListV([i \in DOMAIN v.elements |-> Reify(v.elements[i], d)])
    [] v.kind = "Tag" -> TagV(v.tag, [i \in DOMAIN v.args |-> Reify(v.args[i], d)])
    [] v.kind = "Closure" ->
         IF d = 0 THEN [kind |-> "Closure"]
         ELSE LET c == closures[v.ref] IN
              [kind |-> "Closure", param |-> c.param, body |-> c.body,
               env |-> [n \in DOMAIN envs[c.env] |-> Reify(envs[c.env][n], d - 1)]]
    [] v.kind = "BuiltinFn" ->
         LET b == builtins[v.ref] IN
         [kind |-> "BuiltinFn", name |-> b.name,
          applied |-> IF d = 0 THEN <<>>
                      ELSE [i \in DOMAIN b.applied |-> Reify(b.applied[i], d - 1)]]
    [] OTHER -> v

\* How the call of evaluate that just ended came out: a value, an Error,
\* or an EarlyReturn that reached evaluate's catch.
Outcome ==
  IF result.kind = "throws" THEN [kind |-> "error", value |-> result.value]
  ELSE IF transfers # <<>> /\ transfers[Len(transfers)].caughtBy = -1
  THEN [kind |-> "transfer", value |-> Reify(result.value, ReifyDepth)]
  ELSE [kind |-> "value", value |-> Reify(result.value, ReifyDepth)]

Comparing == IF run = NoRun THEN FALSE ELSE run.entry = "compare"

\* One call of evaluate ended; the next expression is evaluated from a new
\* prelude.
Reevaluate ==
  /\ mode = "done"
  /\ Comparing
  /\ run.phase < 4
  /\ run' = [run EXCEPT !.phase = @ + 1, !.outcomes = Append(@, Outcome)]
  /\ mode' = "eval"
  /\ ctrl' = PhaseExpr(prog, run.phase + 1)
  /\ env' = 1
  /\ stack' = <<>>
  /\ envs' = <<PreludeEnv>>
  /\ closures' = <<>>
  /\ builtins' = createPrelude
  /\ result' = [kind |-> "none"]
  /\ transfers' = <<>>
  /\ fallbacks' = <<>>
  /\ invoked' = <<>>
  /\ applyCount' = 0
  /\ nbind' = 0
  /\ recBound' = {}
  /\ UNCHANGED <<prog, parseVars, lexVars, unifyVars, typeEnv, ninputs>>

InitPipe ==
  /\ prog \in PipePairs
  /\ mode = "eval"
  /\ ctrl = PhaseExpr(prog, 1)
  /\ env = 1
  /\ stack = <<>>
  /\ envs = <<PreludeEnv>>
  /\ closures = <<>>
  /\ builtins = createPrelude
  /\ result = [kind |-> "none"]
  /\ transfers = <<>>
  /\ fallbacks = <<>>
  /\ invoked = <<>>
  /\ applyCount = 0
  /\ nbind = 0
  /\ recBound = {}
  /\ IdleParse
  /\ IdleLex
  /\ IdleUnify
  /\ typeEnv = EmptyMap
  /\ ninputs = 0
  /\ run = [entry |-> "compare", phase |-> 1, outcomes |-> <<>>]

NextPipe == Reevaluate \/ Next

SpecPipe == InitPipe /\ [][NextPipe]_vars

(***************************************************************************)
(* evaluate(parse(tokens)): the tree the parser builds from a token array  *)
(* is evaluated in the empty environment (evaluate's default).  Behaviours *)
(* that start from a tree of Programs, as in Spec, run beside these.       *)
(***************************************************************************)
tOk == Tok("UpperIdent", "Ok")

tErr == Tok("UpperIdent", "Err")

tComma == Tok("Comma", ",")

tStrA == Tok("String", "\"a\"")

\* a |> catch e -> FALLBACK , for a = Ok(2) and a = Err("a").
OkHead == <<tOk, tLParen, tTwo, tRParen, tPipe, tCatch, tE, tArrow>>

ErrHead == <<tErr, tLParen, tStrA, tRParen, tPipe, tCatch, tE, tArrow>>

\* Fallbacks that are evaluated: pipelines of up to MaxOps stages.
RECURSIVE Pipelines(_)
Pipelines(k) ==
  IF k = 0 THEN {<<tE>>, <<tTwo>>}
  ELSE Pipelines(k - 1)
       \cup {b \o <<tPipe>> \o st : b \in Pipelines(k - 1),
               st \in {<<tG>>, <<tFn, tM, tArrow, tM>>, <<tFn, tM, tArrow, tE>>}}

CatchInputs ==
  {OkHead \o b \o <<tEOF>> : b \in Bodies(MaxNest)}
  \cup {h \o b \o <<tEOF>> : h \in {OkHead, ErrHead}, b \in Pipelines(MaxOps)}

\* Calls with 0 .. MaxArgs arguments.
MaxArgs == 3

ArgTokens == {<<tTwo>>, <<tN>>, <<tG, tLParen, tN, tRParen>>, <<tG, tLParen, tRParen>>}

RECURSIVE JoinArgs(_)
\* The token sequence  a1 , ... , ak  of the arguments.
JoinArgs(args) ==
  IF args = <<>> THEN <<>>
  ELSE IF Len(args) = 1 THEN args[1]
  ELSE args[1] \o <<tComma>> \o JoinArgs(Tail(args))

\* f ( a1 , ... , ak )
CallOf(args) == <<tF, tLParen>> \o JoinArgs(args) \o <<tRParen>>

\* let f = FN in CALL
LetF(fn, call) == <<tLet, tF, tEq>> \o fn \o <<tIn>> \o call

\* fn() -> 2,  fn(n) -> n,  fn(n, m) -> m
FnTokens ==
  { <<tFn, tLParen, tRParen, tArrow, tTwo>>,
    <<tFn, tLParen, tN, tRParen, tArrow, tN>>,
    <<tFn, tLParen, tN, tComma, tM, tRParen, tArrow, tM>> }

Twos(k) == [i \in 1..k |-> <<tTwo>>]

CallInputs ==
  UNION {{CallOf(args) \o <<tEOF>> : args \in [1..k -> ArgTokens]} : k \in 0..MaxArgs}
  \cup {LetF(fn, CallOf(Twos(k))) \o <<tEOF>> : fn \in FnTokens, k \in 0..MaxArgs}
  \cup {LetF(fn, CallOf(<<>>) \o <<tLParen, tTwo, tRParen>>) \o <<tEOF>> : fn \in FnTokens}

SourceInputs == CatchInputs \cup CallInputs

\* The parser threw.
ParseFailed == [kind |-> "throws", value |-> "parse error"]

\* evaluate(parse(tokens))
RunParsed ==
  /\ mode = "idle"
  /\ tree = NotParsed
  /\ LET t == parse(tokens) IN
     /\ tree' = t
     /\ IF t.ok
        THEN /\ prog' = t.expr
             /\ ctrl' = t.expr
             /\ mode' = "eval"
             /\ result' = result
        ELSE /\ mode' = "done"
             /\ result' = ParseFailed
             /\ UNCHANGED <<prog, ctrl>>
  /\ UNCHANGED <<tokens, env, stack, heapVars, histVars, lexVars, unifyVars, inferVars>>

InitTokens ==
  /\ tokens \in SourceInputs
  /\ tree = NotParsed
  /\ prog = UnitLit
  /\ mode = "idle"
  /\ ctrl = UnitLit
  /\ env = 1
  /\ stack = <<>>
  /\ envs = <<EmptyMap>>
  /\ closures = <<>>
  /\ builtins = createPrelude
  /\ result = [kind |-> "none"]
  /\ transfers = <<>>
  /\ fallbacks = <<>>
  /\ invoked = <<>>
  /\ applyCount = 0
  /\ nbind = 0
  /\ recBound = {}
  /\ IdleLex
  /\ IdleUnify
  /\ IdleInfer

InitSource == InitTokens \/ Init

NextSource == RunParsed \/ Next

SpecSource == InitSource /\ [][NextSource]_vars

(***************************************************************************)
(* ReplSession: the session keeps this.valueEnv (the Map envs[1], created  *)
(* by createPrelude() and updated in place) and this.typeEnv.  Each input  *)
(* is a token array (lex is modelled on its own); the closures made by     *)
(* earlier inputs stay on the heap.                                        *)
(***************************************************************************)
MaxEvals == 3

tRec == Tok("Rec", "rec")

tMatch == Tok("Match", "match")

tLBrace == Tok("LBrace", "{")

tRBrace == Tok("RBrace", "}")

tThree == Tok("Int", "3")

tH == Tok("Ident", "h")

tZ == Tok("Ident", "z")

tNope == Tok("Ident", "nope")

\* let x = 2
LetX2 == <<tLet, tX, tEq, tTwo>>

\* let x = 3
LetX3 == <<tLet, tX, tEq, tThree>>

\* let y = x
LetYX == <<tLet, tY, tEq, tX>>

\* x
UseX == <<tX>>

\* let h = 2 |> fn y -> fn x -> y
LetH == <<tLet, tH, tEq, tTwo, tPipe, tFn, tY, tArrow, tFn, tX, tArrow, tY>>

\* (let rec y = h in nope)
RecThenFail == <<tLParen, tLet, tRec, tY, tEq, tH, tIn, tNope, tRParen>>

\* h(2)
UseH == <<tH, tLParen, tTwo, tRParen>>

ReplInputs ==
  { LetX2, LetX3, LetYX, UseX, LetH, RecThenFail, UseH,
    <<tTwo, tPlus, tStrA>>,
    <<tLet, tX, tEq>>,
    <<tNope>>,
    <<tLet, tX, tEq, tTwo, tIn, tX>>,
    <<tLet, tZ, tEq, tMatch, tTwo, tLBrace, tThree, tArrow, tTwo, tRBrace>>,
    <<tLet>>,
    <<Tok("Ident", "head"), tPipe, tTwo>> }

\* What eval does with an input before evaluate is entered: it returns an
\* error result, or goes on to evaluate a tree.
Rejected(message) == [start |-> FALSE, message |-> message]

Evaluates(ast, form, name, type) ==
  [start |-> TRUE, ast |-> ast, form |-> form, name |-> name, type |-> type]

\* if (e.message && !e.message.startsWith("Undefined variable")): the
\* message of a RillError starts with "Error at".
MissingBinding(error) ==
  error.class = "TypeError" /\ error.message = "Undefined variable"

\* eval on an expression: the type check is skipped for a missing binding.
PlanExpr(ast, r) ==
  IF ~r.ok /\ ~MissingBinding(r.error) THEN Rejected(r.error.message)
  ELSE Evaluates(ast, "expr", "", UnitLit)

\* handleLetBinding: what infer throws is caught by eval's outer catch.
PlanLet(ast, form, name, r) ==
  IF ~r.ok THEN Rejected(r.error.message)
  ELSE Evaluates(ast, form, name, r.type)

\* tokens.some(t => t.kind === TokenKind.In)
hasIn(toks) == \E i \in DOMAIN toks : toks[i].kind = "In"

\* i = 1, or 2 after `rec` (positions from 0).
NameIndex(toks) == IF KindAt(toks, 2) = "Rec" THEN 3 ELSE 2

\* lex(`${input} in ${name}`)
augmented(toks) ==
  SubSeq(toks, 1, Len(toks) - 1) \o <<tIn, toks[NameIndex(toks)], tEOF>>

Parsed(t, K(_)) == IF t.ok THEN K(t.expr) ELSE Rejected("parse error")

handleLetBinding(toks) ==
  IF hasIn(toks)
  THEN Parsed(parse(toks), LAMBDA ast :
         PlanLet(ast, "letIn", "", infer(ast, EmptyMap, TRUE, 0)))
  ELSE IF toks[NameIndex(toks)].lexeme = ""
  THEN Rejected("Expected variable name after let")
  ELSE Parsed(parse(augmented(toks)), LAMBDA ast :
         PlanLet(ast, "let", toks[NameIndex(toks)].lexeme, infer(ast, EmptyMap, TRUE, 0)))

\* ReplSession.eval up to the call of evaluate; toks ends with the sentinel.
ReplPlan(toks) ==
  IF toks[1].kind = "Let" THEN handleLetBinding(toks)
  ELSE Parsed(parse(toks), LAMBDA ast : PlanExpr(ast, infer(ast, typeEnv, TRUE, 0)))

\* The session's bindings, closures written out.
Snapshot ==
  [values |-> [n \in DOMAIN envs[1] |-> Reify(envs[1][n], ReifyDepth)],
   types |-> typeEnv]

\* No call of eval is under way.
Listening == IF run = NoRun THEN TRUE ELSE ~run.evaluating

\* eval either returns an error result at once or enters
\* evaluate(ast, new Map(this.valueEnv)).
Entered(plan, last) ==
  /\ run' = [entry |-> "repl", evaluating |-> plan.start,
             form |-> IF plan.start THEN plan.form ELSE "",
             name |-> IF plan.start THEN plan.name ELSE "",
             type |-> IF plan.start THEN plan.type ELSE UnitLit,
             before |-> Snapshot]
  /\ ninputs' = IF last THEN MaxEvals ELSE ninputs + 1
  /\ IF plan.start
     THEN /\ prog' = plan.ast
          /\ ctrl' = plan.ast
          /\ mode' = "eval"
          /\ envs' = Append(envs, envs[1])
          /\ env' = Len(envs) + 1
          /\ stack' = <<>>
          /\ result' = [kind |-> "none"]
          /\ transfers' = <<>>
          /\ fallbacks' = <<>>
          /\ invoked' = <<>>
          /\ applyCount' = 0
          /\ nbind' = 0
          /\ recBound' = {}
     ELSE /\ mode' = "done"
          /\ result' = [kind |-> "error", value |-> plan.message]
          /\ UNCHANGED <<prog, ctrl, env, stack, envs, histVars>>
  /\ UNCHANGED <<closures, builtins, tree, lexVars, unifyVars, typeEnv>>

\* session.eval(input)
ReplEval ==
  /\ mode \in {"idle", "done"}
  /\ Listening
  /\ ninputs < MaxEvals
  /\ \E input \in ReplInputs :
       /\ tokens' = input \o <<tEOF>>
       /\ Entered(ReplPlan(input \o <<tEOF>>), FALSE)

\* session.eval on an input whose tree is a program of Programs, as the
\* only input of a new session.
ReplEvalProgram ==
  /\ mode = "idle"
  /\ ninputs = 0
  /\ \E p \in Programs :
       /\ tokens' = tokens
       /\ Entered(PlanExpr(p, infer(p, typeEnv, TRUE, 0)), TRUE)

\* evaluate has ended: handleLetBinding records the binding of a top-level
\* let (this.valueEnv.set, this.typeEnv.set); eval returns the output, or
\* the error result of its catch.
ReplReturn ==
  /\ mode = "done"
  /\ ~Listening
  /\ run' = [run EXCEPT !.evaluating = FALSE]
  /\ IF run.form = "let" /\ result.kind = "value"
     THEN /\ envs' = [envs EXCEPT ![1] = MapSet(@, run.name, result.value)]
          /\ typeEnv' = MapSet(typeEnv, run.name, Scheme(<<>>, run.type))
     ELSE UNCHANGED <<envs, typeEnv>>
  /\ UNCHANGED <<prog, mode, ctrl, env, stack, closures, builtins, result, histVars,
                 parseVars, lexVars, unifyVars, ninputs>>

\* new ReplSession()
InitRepl ==
  /\ IdleEval
  /\ IdleParse
  /\ IdleLex
  /\ IdleUnify
  /\ IdleInfer

NextRepl == ReplEval \/ ReplEvalProgram \/ ReplReturn \/ Next

SpecRepl == InitRepl /\ [][NextRepl]_vars

(***************************************************************************)
(* Properties of the evaluator.                                            *)
(***************************************************************************)
Settled(t) == t.caughtBy # 0

FallbacksFor(i) == {j \in DOMAIN fallbacks : fallbacks[j].transfer = i}

AtCatch == stack # <<>> /\ Head(stack).kind = "CatchK"

\* C1: a transfer carrying Err(payload, ...) that is raised while the
\* protected expression of at least one recovery binder is under evaluation
\* is caught by the innermost such binder, that binder's fallback runs with
\* its error parameter bound to the payload, and no other binder's fallback
\* runs for that transfer.
C1_InnermostBinderCatches ==
  \A i \in DOMAIN transfers :
    LET t == transfers[i] IN
    (Settled(t) /\ t.protecting # <<>> /\ IsErr1(t.value)) =>
      /\ t.caughtBy = t.protecting[1]
      /\ \E j \in FallbacksFor(i) :
           /\ fallbacks[j].binder = t.protecting[1]
           /\ envs[fallbacks[j].env][fallbacks[j].name] = t.value.args[1]
      /\ \A j \in FallbacksFor(i) : fallbacks[j].binder = t.protecting[1]

\* C2: while a transfer unwinds, every activation other than a recovery
\* binder (closure body, built-in callback loop, pending application, pipe
\* stage, ...) is abandoned with the transfer unchanged, and no function is
\* applied between the raise and the catch.
C2_Abandon ==
  (mode = "throw" /\ stack # <<>> /\ Head(stack).kind # "CatchK") =>
     /\ mode' = "throw"
     /\ ctrl' = ctrl
     /\ stack' = Tail(stack)
     /\ applyCount' = applyCount
     /\ invoked' = invoked

C2_NothingApplied ==
  \A i \in DOMAIN transfers :
    Settled(transfers[i]) => transfers[i].applyAtCatch = transfers[i].applyAtRaise

C3_UnprotectedReachesBoundary ==
  \A i \in DOMAIN transfers :
    LET t == transfers[i] IN
    (Settled(t) /\ t.protecting = <<>>) =>
      /\ t.caughtBy = -1
      /\ mode = "done" => result = [kind |-> "value", value |-> t.value]

\* C4, as stated: at a recovery binder whose protected expression finished,
\* Ok(v) gives v; an Err tag, returned or carried by a transfer, runs the
\* fallback with the error parameter bound to the payload; any other
\* returned value is the result unchanged.
C4_OriginalStep ==
  (mode \in {"ret", "throw"} /\ AtCatch /\ Head(stack).phase = "protected") =>
     LET f == Head(stack) IN
     IF mode = "ret" /\ IsOk1(ctrl)
     THEN mode' = "ret" /\ ctrl' = ctrl.args[1] /\ stack' = Tail(stack)
     ELSE IF IsErr(ctrl)
     THEN /\ mode' = "eval"
          /\ ctrl' = f.fallback
          /\ Len(ctrl.args) >= 1
          /\ envs'[env'] = MapSet(envs[f.env], f.errorName, ctrl.args[1])
     ELSE mode' = "ret" /\ ctrl' = ctrl /\ stack' = Tail(stack)

C4_AmendedStep ==
  (mode \in {"ret", "throw"} /\ AtCatch) =>
     LET f == Head(stack) IN
     IF mode = "ret" /\ f.phase = "fallback"
     THEN mode' = "ret" /\ ctrl' = ctrl /\ stack' = Tail(stack)
     ELSE IF mode = "ret" /\ IsOk1(ctrl)
     THEN mode' = "ret" /\ ctrl' = ctrl.args[1] /\ stack' = Tail(stack)
     ELSE IF IsErr(ctrl) /\ Len(ctrl.args) >= 1
     THEN /\ mode' = "eval"
          /\ ctrl' = f.fallback
          /\ env' \notin DOMAIN envs
          /\ envs'[env'] = MapSet(envs[f.env], f.errorName, ctrl.args[1])
     ELSE mode' = "ret" /\ ctrl' = ctrl /\ stack' = Tail(stack)

C5_TryStep ==
  (mode = "ret" /\ stack # <<>> /\ Head(stack).kind \in {"TryK", "PipeTryR"}) =>
     IF IsOk1(ctrl)
     THEN mode' = "ret" /\ ctrl' = ctrl.args[1] /\ transfers' = transfers
     ELSE IF IsErr(ctrl)
     THEN /\ mode' = "throw"
          /\ ctrl' = ctrl
          /\ Len(transfers') = Len(transfers) + 1
          /\ transfers'[Len(transfers')].value = ctrl
     ELSE mode' = "error" /\ transfers' = transfers

C5_UnwrapOutcomes == [][C5_TryStep]_vars

\* An unwrap raised a transfer carrying an argument-less Err, and the run
\* ended with that Err.
C5_Witness ==
  /\ mode = "done"
  /\ transfers # <<>>
  /\ transfers[1].value = TagV("Err", <<>>)
  /\ result = [kind |-> "value", value |-> TagV("Err", <<>>)]

\* C6: a built-in object always holds fewer accumulated arguments than its
\* arity; applying one never changes an existing built-in object; the
\* underlying callable is invoked exactly by the application that supplies
\* the last argument, with the arguments in application order, and every
\* earlier application returns a new object with the argument appended.
C6_FewerThanArity ==
  /\ \A b \in DOMAIN builtins : Len(builtins[b].applied) < builtins[b].arity
  /\ \A k \in DOMAIN invoked : Len(invoked[k].args) = Arity(invoked[k].name)

C6_ApplyStep ==
  /\ \A b \in DOMAIN builtins : b \in DOMAIN builtins' /\ builtins'[b] = builtins[b]
  /\ IF mode = "apply" /\ ctrl.fn.kind = "BuiltinFn"
     THEN LET b == builtins[ctrl.fn.ref]
              applied == b.applied \o <<ctrl.arg>> IN
          IF Len(applied) = b.arity
          THEN /\ invoked' = Append(invoked,
                    [name |-> b.name, args |-> applied, fn |-> ctrl.fn.ref])
               /\ builtins' = builtins
          ELSE /\ invoked' = invoked
               /\ mode' = "ret"
               /\ ctrl' = BuiltinV(Len(builtins) + 1)
               /\ builtins' = Append(builtins,
                    [name |-> b.name, arity |-> b.arity, applied |-> applied])
     ELSE invoked' = invoked /\ builtins' = builtins

C6_AutoCurrying == []C6_FewerThanArity /\ [][C6_ApplyStep]_vars

\* One partially applied fold (two of three arguments) was completed twice,
\* each time with its own list.
C6_Witness ==
  /\ Len(invoked) = 2
  /\ invoked[1].name = "fold" /\ invoked[2].name = "fold"
  /\ invoked[1].fn = invoked[2].fn
  /\ invoked[1].args[3] # invoked[2].args[3]
  /\ Len(builtins[invoked[1].fn].applied) = 2

\* The names bound by a pattern, and the free names of an expression.
RECURSIVE PatNames(_)
PatNames(pat) ==
  CASE pat.kind = "IdentPat" -> {pat.name}
    [] pat.kind = "TagPat" -> UNION {PatNames(pat.args[i]) : i \in DOMAIN pat.args}
    [] OTHER -> {}

RECURSIVE FreeNames(_)
FreeNames(e) ==
  CASE e.kind = "Ident" -> {e.name}
    [] e.kind \in {"IntLit", "StringLit", "BoolLit", "UnitLit"} -> {}
    [] e.kind = "BinOp" -> FreeNames(e.left) \cup FreeNames(e.right)
    [] e.kind = "Let" ->
         (IF e.rec THEN FreeNames(e.value) \ {e.name} ELSE FreeNames(e.value))
         \cup (FreeNames(e.body) \ {e.name})
    [] e.kind = "Fn" -> FreeNames(e.body) \ {e.param}
    [] e.kind = "Call" -> FreeNames(e.fn) \cup FreeNames(e.arg)
    [] e.kind = "Match" ->
         FreeNames(e.subject)
         \cup UNION {FreeNames(e.cases[i].body) \ PatNames(e.cases[i].pattern) :
                       i \in DOMAIN e.cases}
    [] e.kind = "Try" -> FreeNames(e.expr)
    [] e.kind = "Catch" -> FreeNames(e.expr) \cup (FreeNames(e.fallback) \ {e.errorName})
    [] e.kind = "Pipe" -> FreeNames(e.left) \cup FreeNames(e.right)
    [] e.kind = "List" -> UNION {FreeNames(e.elements[i]) : i \in DOMAIN e.elements}
    [] e.kind = "Tag" -> UNION {FreeNames(e.args[i]) : i \in DOMAIN e.args}
    [] e.kind = "If" -> FreeNames(e.cond) \cup FreeNames(e.then) \cup FreeNames(e.else_)

Undefined == [kind |-> "Undefined"]

Resolve(m, n) == IF n \in DOMAIN m THEN m[n] ELSE Undefined

\* The closures some name is bound to in some environment Map.
BoundClosures ==
  {c \in DOMAIN closures :
     \E i \in DOMAIN envs : \E n \in DOMAIN envs[i] : envs[i][n] = ClosureV(c)}

\* C7: once a closure is bound to a name, no later let, let rec, parameter
\* or pattern binding changes what a free name of its body resolves to in
\* the environment it carries.
C7_CaptureStep ==
  \A c \in BoundClosures :
    \A n \in FreeNames(closures[c].body) \ {closures[c].param} :
      Resolve(envs'[closures'[c].env], n) = Resolve(envs[closures[c].env], n)

C7_CapturedByValue == [][C7_CaptureStep]_vars

\* C8: no step changes an existing environment Map (the one evaluate was
\* given included); every let, closure application, match case and fallback
\* runs in a Map allocated by that step, which is the Map of the enclosing
\* scope plus the new bindings.
C8_BindStep ==
  /\ \A i \in DOMAIN envs : i \in DOMAIN envs' /\ envs'[i] = envs[i]
  /\ (mode = "ret" /\ stack # <<>> /\ Head(stack).kind = "LetK") =>
        /\ env' \notin DOMAIN envs
        /\ envs'[env'] = MapSet(envs[Head(stack).env], Head(stack).name, ctrl)
  /\ (mode = "apply" /\ ctrl.fn.kind = "Closure") =>
        /\ env' \notin DOMAIN envs
        /\ envs'[env'] = MapSet(envs[closures[ctrl.fn.ref].env],
                                closures[ctrl.fn.ref].param, ctrl.arg)
  /\ (mode = "ret" /\ stack # <<>> /\ Head(stack).kind = "MatchK" /\ mode' = "eval") =>
        /\ env' \notin DOMAIN envs
        /\ DOMAIN envs[Head(stack).env] \subseteq DOMAIN envs'[env']
  /\ (Len(fallbacks') > Len(fallbacks)) =>
        /\ env' \notin DOMAIN envs
        /\ envs'[env'] = MapSet(envs[Head(stack).env], Head(stack).errorName, ctrl.args[1])

C8_CopyOnBind == [][C8_BindStep]_vars /\ [](envs[1] = PreludeEnv)

\* let y = 1 in let f = fn x -> y in let y = 2 in f(0) has run to its end:
\* the inner let left the Map that f captured alone, so the result is 1.
C8_Witness ==
  /\ mode = "done"
  /\ prog = Let("y", IntLit(1), Let("f", Fn("x", Ident("y")),
              Let("y", IntLit(2), Call(Ident("f"), IntLit(0)))))
  /\ result = [kind |-> "value", value |-> IntV(1)]
  /\ Len(envs) >= 4

\* C9: a closure bound by `let rec name` has, from then on, a captured
\* environment in which name is that closure, and every application of it
\* whose parameter is not name runs its body with name bound to it.
C9_SelfBound ==
  \A p \in recBound :
    LET m == envs[closures[p[2]].env] IN
    p[1] \in DOMAIN m /\ m[p[1]] = ClosureV(p[2])

C9_ApplyStep ==
  (mode = "apply" /\ ctrl.fn.kind = "Closure") =>
     \A p \in recBound :
       (p[2] = ctrl.fn.ref /\ closures[p[2]].param # p[1]) =>
          (p[1] \in DOMAIN envs'[env'] /\ envs'[env'][p[1]] = ctrl.fn)

C9_RecFixPoint == []C9_SelfBound /\ [][C9_ApplyStep]_vars

\* let rec sum ... in sum(MaxDepth) has recursed to depth MaxDepth + 1 and
\* returned 0 + 1 + ... + MaxDepth.
C9_Witness ==
  /\ mode = "done"
  /\ prog = LetRec("sum", SumFn, Call(Ident("sum"), IntLit(MaxDepth)))
  /\ result = [kind |-> "value", value |-> IntV((MaxDepth * (MaxDepth + 1)) \div 2)]
  /\ applyCount = MaxDepth + 1
  /\ recBound # {}

(***************************************************************************)
(* Properties of the parser.                                               *)
(***************************************************************************)
IsStage(toks) ==
  /\ Len(toks) > Len(StagePrefix) + Len(StageSuffix)
  /\ SubSeq(toks, 1, Len(StagePrefix)) = StagePrefix
  /\ SubSeq(toks, Len(toks) - Len(StageSuffix) + 1, Len(toks)) = StageSuffix

StageBody(toks) == SubSeq(toks, Len(StagePrefix) + 1, Len(toks) - Len(StageSuffix))

\* The tokens are a lambda's body: parseExpr(6) on them alone reads all of
\* them and stops at the end.
CompleteBody(body) ==
  LET alone == parseExpr(body \o <<tEOF>>, 1, FnBodyBp) IN
  alone.ok /\ alone.pos = Len(body) + 1

BodyExpr(body) == parseExpr(body \o <<tEOF>>, 1, FnBodyBp).expr

RECURSIVE HasOutside(_, _, _)
\* A token of one of the kinds stands outside every (), [] and {}.
HasOutside(toks, kinds, depth) ==
  IF toks = <<>> THEN FALSE
  ELSE LET k == Head(toks).kind IN
       IF k \in {"LParen", "LBracket", "LBrace"} THEN HasOutside(Tail(toks), kinds, depth + 1)
       ELSE IF k \in {"RParen", "RBracket", "RBrace"} THEN HasOutside(Tail(toks), kinds, depth - 1)
       ELSE (depth = 0 /\ k \in kinds) \/ HasOutside(Tail(toks), kinds, depth)

PipeOutside(toks) ==
  Ok(Pipe(Pipe(Ident("x"), Fn("n", BodyExpr(StageBody(toks)))), Ident("g")), Len(toks) + 1)

IsChain(toks) ==
  /\ Len(toks) >= 4
  /\ Len(toks) % 2 = 0
  /\ toks[Len(toks)].kind = "EOF"
  /\ \A i \in 1..(Len(toks) - 1) :
       IF i % 2 = 1 THEN toks[i].kind = "Ident" ELSE toks[i].kind \in InfixKinds

Level(tok) == infixBp(tok.kind)[1]

\* The operator a chain splits at: the last one of the lowest level.
RootOp(chain) ==
  CHOOSE i \in 1..Len(chain) :
    /\ i % 2 = 0
    /\ \A j \in 1..Len(chain) :
         j % 2 = 0 => /\ Level(chain[i]) <= Level(chain[j])
                      /\ (j > i => Level(chain[i]) < Level(chain[j]))

RECURSIVE ChainTree(_)
\* The tree in which higher levels bind tighter and equal levels associate
\* to the left.
ChainTree(chain) ==
  IF Len(chain) = 1 THEN Ident(chain[1].lexeme)
  ELSE LET i == RootOp(chain)
           l == ChainTree(SubSeq(chain, 1, i - 1))
           r == ChainTree(SubSeq(chain, i + 1, Len(chain))) IN
       CASE chain[i].kind = "Dot" -> FieldAccess(l, r.name)
         [] chain[i].kind = "Pipe" -> Pipe(l, r)
         [] OTHER -> BinOp(tokenToOp(chain[i].kind), l, r)

\* C11: in every chain of infix operators the operator of the higher left
\* binding power binds tighter and operators of one level associate to the
\* left; every right binding power is left + 1 and the pipe has the lowest
\* power of the table.
C11_BindingPowers ==
  /\ \A k \in InfixKinds : /\ infixBp(k)[2] = infixBp(k)[1] + 1
                           /\ infixBp("Pipe")[1] <= infixBp(k)[1]
                           /\ (k # "Pipe" => infixBp("Pipe")[1] < infixBp(k)[1])
  /\ (tree # NotParsed /\ IsChain(tokens))
       => tree = Ok(ChainTree(SubSeq(tokens, 1, Len(tokens) - 1)), Len(tokens) + 1)

\* C11 witness:  a |> b |> c  was parsed to (a |> b) |> c.
C11_Witness ==
  /\ tokens = Chain(<<"Pipe", "Pipe">>) \o <<tEOF>>
  /\ tree = Ok(Pipe(Pipe(Ident("a"), Ident("b")), Ident("c")), 7)

\* The array ends with the EOF sentinel and has no other.
OneSentinel(toks) ==
  /\ toks # <<>>
  /\ \A i \in 1..Len(toks) : toks[i].kind = "EOF" <=> i = Len(toks)

\* C12: on an array with exactly one sentinel, at its end, parse either
\* throws at a token of the array or returns a tree with the position just
\* after the sentinel: no position after the sentinel is read.
C12_ConsumesToSentinel ==
  (tree # NotParsed /\ OneSentinel(tokens))
    => IF tree.ok THEN tree.pos = Len(tokens) + 1 /\ "kind" \in DOMAIN tree.expr
       ELSE tree.pos \in 1..Len(tokens)

\* C12 witness: ( n  followed by the sentinel: the parse error is raised at
\* the sentinel.
C12_Witness ==
  /\ tokens = <<tLParen, tN, tEOF>>
  /\ tree = Fail(3)

(***************************************************************************)
(* Properties of the lexer.                                                *)
(***************************************************************************)
\* C13: when lex accepts a source, lex of its lexemes (sentinel left out)
\* joined by whitespace accepts too and gives the same kinds and lexemes.
C13_LexRoundTrip ==
  relexed # NotLexed => relexed = lexed

\* C13 witness: a source of two tokens or more was accepted, its joined
\* lexemes are other characters than the source, and they were lexed.
C13_Witness ==
  /\ relexed # NotLexed
  /\ relexed.ok
  /\ Len(lexed.tokens) >= 3
  /\ \E sep \in Whitespace : JoinWith(lexemes(lexed.tokens), sep) # source

(***************************************************************************)
(* Properties of unification.                                              *)
(***************************************************************************)
\* Every call made so far returned, and there was one.
AllReturned == ncalls > 0 /\ NoneThrew

\* C14: when unify(T1, T2, s) returns, the substitution it returns makes
\* the two types equal: applySubst gives one and the same type for both.
C14_UnifyMakesEqual ==
  AllReturned =>
    /\ applySubst(subst, ucall.t1) # Overflow
    /\ applySubst(subst, ucall.t1) = applySubst(subst, ucall.t2)

RECURSIVE TypeVars(_)
\* The type variables a type mentions, in every shape.
TypeVars(t) ==
  CASE t.kind = "TVar" -> {t.id}
    [] t.kind = "TFn" -> TypeVars(t.param) \cup TypeVars(t.ret)
    [] t.kind = "TList" -> TypeVars(t.element)
    [] t.kind = "TTuple" -> UNION {TypeVars(t.elements[i]) : i \in DOMAIN t.elements}
    [] t.kind = "TRecord" ->
         UNION {TypeVars(t.fields[i].type) : i \in DOMAIN t.fields}
           \cup (IF t.rest = NoRest THEN {} ELSE TypeVars(t.rest))
    [] t.kind = "TResult" -> TypeVars(t.ok)
    [] t.kind = "TTag" -> UNION {TypeVars(t.args[i]) : i \in DOMAIN t.args}
    [] OTHER -> {}

RECURSIVE ReachableVars(_, _, _)
\* The variables met when the bindings are followed from a set of variables.
ReachableVars(s, from, seen) ==
  LET next == UNION {TypeVars(s[v]) : v \in from \cap DOMAIN s} IN
  IF next \subseteq seen THEN seen
  ELSE ReachableVars(s, next \ seen, seen \cup next)

\* v -> T is in the substitution and T, with the substitution applied,
\* mentions v.
Cyclic(s, v) == v \in DOMAIN s /\ v \in ReachableVars(s, {v}, {})

\* C15: after unify calls that all returned, starting from the empty
\* substitution, no binding v -> T has v in T with the substitution applied.
C15_SubstitutionAcyclic ==
  AllReturned => \A v \in DOMAIN subst : ~Cyclic(subst, v)

\* Two tag types unify as the rule says: same constructor, same number of
\* arguments, and the arguments unify one by one from left to right.
TagsShouldUnify(t1, t2, s) ==
  /\ t1.tag = t2.tag
  /\ Len(t1.args) = Len(t2.args)
  /\ unifyElements(t1.args, t2.args, 1, s).ok

\* C16: unify of two tag types returns exactly when the constructor names
\* are equal, the argument lists are equally long and the arguments unify
\* component-wise; a tag type unifies with itself.
C16_TagsUnify ==
  (/\ ncalls = 1
   /\ ucall.t1.kind = "TTag"
   /\ ucall.t2.kind = "TTag")
    => (ucall.ok <=> TagsShouldUnify(ucall.t1, ucall.t2, EmptyMap))

(***************************************************************************)
(* Properties of inference runs.                                           *)
(***************************************************************************)
\* The history of the last run.
RunLog == IF run = NoRun THEN <<>> ELSE run.outcome.st.log

\* sigma(T) for a type of a run that is not under a quantifier.
Resolved(s, t) == applySubst(s, t)

\* The substitution without the bindings of the quantified variables vs.
Without(s, vs) == [v \in DOMAIN s \ vs |-> s[v]]

\* The variables free in a scheme with the substitution applied: those of
\* its type that are left when the quantified ones are set aside.
FreeInScheme(s, sch) ==
  TypeVars(Resolved(Without(s, Range(sch.vars)), sch.type)) \ Range(sch.vars)

FreeInEnv(s, tenv) == UNION {FreeInScheme(s, tenv[k]) : k \in DOMAIN tenv}

NoDuplicates(seq) == \A i, j \in DOMAIN seq : seq[i] = seq[j] => i = j

\* C17: at a non-recursive let the scheme quantifies exactly the variables
\* free in the value's type and not free in the environment, both with the
\* current substitution applied, and never a variable that stands for the
\* parameter of an enclosing lambda.
C17_GeneralizeExact ==
  \A i \in DOMAIN RunLog :
    RunLog[i].event = "generalize" =>
      /\ NoDuplicates(RunLog[i].scheme.vars)
      /\ Range(RunLog[i].scheme.vars)
           = TypeVars(Resolved(RunLog[i].subst, RunLog[i].type))
               \ FreeInEnv(RunLog[i].subst, RunLog[i].env)
      /\ RunLog[i].scheme.type = Resolved(RunLog[i].subst, RunLog[i].type)
      /\ \A p \in RunLog[i].params :
           TypeVars(Resolved(RunLog[i].subst, TVar(p))) \cap Range(RunLog[i].scheme.vars) = {}

\* A let under a lambda whose value's type mentions the parameter's variable
\* and another variable, which is quantified.
C17_Witness ==
  \E i \in DOMAIN RunLog :
    /\ RunLog[i].event = "generalize"
    /\ RunLog[i].scheme.vars # <<>>
    /\ \E p \in RunLog[i].params :
         TypeVars(Resolved(RunLog[i].subst, TVar(p))) \cap TypeVars(RunLog[i].scheme.type) # {}

\* The ids freshTypeVar returned in the events from..to of the run.
Issued(from, to) ==
  {RunLog[j].id : j \in {k \in from..to : k \in DOMAIN RunLog /\ RunLog[k].event = "freshTypeVar"}}

\* Every variable written in an env's types, quantified or not.
VarsOfEnv(tenv) == UNION {TypeVars(tenv[k].type) : k \in DOMAIN tenv}

VarsOfSubst(s) == DOMAIN s \cup UNION {TypeVars(s[v]) : v \in DOMAIN s}

\* The events of one instantiate call end at i: its freshTypeVar calls, one
\* for each quantified variable in order, then the record of the call.
FreshOf(i) == [j \in 1..(i - RunLog[i].at) |-> RunLog[RunLog[i].at + j - 1].id]

Renaming(vs, ids) ==
  [v \in Range(vs) |-> TVar(ids[CHOOSE j \in DOMAIN vs : vs[j] = v])]

C19_FreshIdsUnique ==
  run # NoRun =>
    /\ \A i, j \in DOMAIN RunLog :
         (RunLog[i].event = "freshTypeVar" /\ RunLog[j].event = "freshTypeVar"
            /\ RunLog[i].id = RunLog[j].id) => i = j
    /\ Issued(1, Len(RunLog)) \cap VarsOfEnv(run.env) = {}

(***************************************************************************)
(* Properties of runSource.                                                *)
(***************************************************************************)
\* The inference of runSource ended with a type error.
TypeErrorFound ==
  IF run = NoRun THEN FALSE
  ELSE /\ run.entry = "runSource"
       /\ ~run.outcome.ok
       /\ run.outcome.error.class \in {"TypeError", "RillError"}

\* C20: when inference fails with a type error, runSource returns an error
\* result and the program is not evaluated: evaluate is never entered, no
\* built-in is invoked and no output value is produced.
C20_TypeErrorsBlock ==
  TypeErrorFound =>
    /\ mode = "done"
    /\ result.kind = "typeError"
    /\ invoked = <<>>

(***************************************************************************)
(* Further properties of the evaluator.                                    *)
(***************************************************************************)
\* The fallbacks that ran for one evaluation of a recovery binder.
FallbacksOf(b) == {j \in DOMAIN fallbacks : fallbacks[j].binder = b}

\* C27: a recovery binder guards only its protected expression: a transfer
\* is caught only by a binder whose protected expression was under
\* evaluation when the transfer was raised (never by the binder whose
\* fallback raised it), and the fallback runs at most once per evaluation
\* of the binder.
C27_GuardsOnlyProtected ==
  /\ \A i \in DOMAIN transfers :
       transfers[i].caughtBy > 0 =>
         transfers[i].caughtBy \in Range(transfers[i].protecting)
  /\ \A b \in 1..nbind : Cardinality(FallbacksOf(b)) <= 1

\* The names a pattern binds.
RECURSIVE PatVars(_)
PatVars(p) ==
  CASE p.kind = "IdentPat" -> {p.name}
    [] p.kind = "TagPat" -> UNION {PatVars(p.args[i]) : i \in DOMAIN p.args}
    [] OTHER -> {}

\* The cases of a match whose pattern matches the subject.
MatchingCases(cases, subject) ==
  {i \in DOMAIN cases : matchPattern(cases[i].pattern, subject).ok}

\* C24: when the subject of a match is known, the body that is evaluated
\* next is the body of the case of least index whose pattern matches, in a
\* new environment that is the match's environment plus exactly the names
\* of that pattern; the match is then left, so no other case's body runs;
\* when no case matches a runtime error is raised.
C24_MatchStep ==
  Returning("MatchK") =>
    LET f == Head(stack)
        ms == MatchingCases(f.cases, ctrl) IN
    IF ms = {}
    THEN mode' = "error" /\ ctrl' = "No matching pattern" /\ stack' = Tail(stack)
    ELSE LET i == CHOOSE k \in ms : \A j \in ms : k <= j
             pat == f.cases[i].pattern IN
         /\ mode' = "eval"
         /\ ctrl' = f.cases[i].body
         /\ stack' = Tail(stack)
         /\ env' \notin DOMAIN envs
         /\ DOMAIN envs'[env'] = DOMAIN envs[f.env] \cup PatVars(pat)
         /\ \A n \in DOMAIN envs[f.env] \ PatVars(pat) :
              envs'[env'][n] = envs[f.env][n]
         /\ envs'[env'] = MapSetAll(envs[f.env], matchPattern(pat, ctrl).binds)

C24_FirstMatchingCase == [][C24_MatchStep]_vars

\* C24 witness: sum(0) ran  match 0 { 0 -> 0, m -> m + sum(m - 1) } , where
\* both patterns match 0, and the program's value is that of the first body.
C24_Witness ==
  /\ prog = LetRec("sum", SumFn, Call(Ident("sum"), IntLit(0)))
  /\ mode = "done"
  /\ result = [kind |-> "value", value |-> IntV(0)]

LogicOps == {"&&", "||"}

\* What evaluating a right operand of RightOperands on its own gives.
RightAlone(r) ==
  CASE r = Ident("nope") -> [kind |-> "throws", value |-> "Undefined variable"]
    [] r = Try(ErrE("a")) -> [kind |-> "value", value |-> TagV("Err", <<StringV("a")>>)]
    [] OTHER -> [kind |-> "none"]

\* C25, steps: a && or || node first evaluates its left operand; when that
\* returned, whatever its value, the right operand is evaluated next in the
\* node's environment; the operator is applied when both are known.
C25_Step ==
  /\ (Evaluating("BinOp") /\ ctrl.op \in LogicOps) =>
        /\ mode' = "eval" /\ ctrl' = ctrl.left /\ env' = env
        /\ Len(stack') = Len(stack) + 1
  /\ (Returning("BinOpL") /\ Head(stack).op \in LogicOps) =>
        /\ mode' = "eval" /\ ctrl' = Head(stack).right /\ env' = Head(stack).env
        /\ Len(stack') = Len(stack)
        /\ Head(stack').kind = "BinOpR" /\ Head(stack').left = ctrl
  /\ (Returning("BinOpR") /\ Head(stack).op \in LogicOps) =>
        /\ stack' = Tail(stack)
        /\ LET r == evalBinOp(Head(stack).op, Head(stack).left, ctrl) IN
           IF r.kind = "Error" THEN mode' = "error" ELSE mode' = "ret" /\ ctrl' = r

\* C25, outcome: with a literal left operand, an error or a transfer of
\* the right operand is the outcome of the whole expression, also when the
\* left operand alone decides the result; a function call in the right
\* operand is made.
C25_RightOutcome ==
  \A op \in LogicOps, b \in BOOLEAN, r \in RightOperands :
    (prog = BinOp(op, BoolLit(b), r) /\ mode = "done") =>
       /\ RightAlone(r).kind # "none" => result = RightAlone(r)
       /\ r.kind = "Try" /\ r.expr = ErrE("a") => Len(transfers) = 1
       /\ r.kind = "Call" => applyCount = 1

C25_StrictLogic == [][C25_Step]_vars /\ []C25_RightOutcome

\* C25 witness:  false && Err("a")?  ended with the Err as its value.
C25_Witness ==
  /\ prog = BinOp("&&", BoolLit(FALSE), Try(ErrE("a")))
  /\ mode = "done"
  /\ result = [kind |-> "value", value |-> TagV("Err", <<StringV("a")>>)]

(***************************************************************************)
(* Pipe and application.                                                   *)
(***************************************************************************)
\* All four calls of evaluate ended.
Compared == Comparing /\ mode = "done" /\ run.phase = 4

GaveValue(o) == o.kind = "value"

StartsWith(toks, head) ==
  Len(toks) > Len(head) + 1 /\ SubSeq(toks, 1, Len(head)) = head

\* The tokens after the head, with the sentinel.
After(toks, head) == SubSeq(toks, Len(head) + 1, Len(toks))

\* The tokens are an expression on their own: parseExpr(0) reads them all.
CompleteAlone(toks) ==
  LET alone == parseExpr(toks, 1, TopBp) IN
  alone.ok /\ alone.pos = Len(toks)

HeadExpr(head) == IF head = OkHead THEN OkE(IntLit(2)) ELSE ErrE("a")

\* C29: in  a |> catch e -> FALLBACK , whatever pipes FALLBACK holds, the
\* fallback of the binder is all of FALLBACK: the tree is
\* a |> (catch e -> FALLBACK); and when a yields Ok(v) the value is v and
\* nothing of FALLBACK has run: no fallback, no function application.
C29_FallbackTakesPipes ==
  \A head \in {OkHead, ErrHead} :
    (tree # NotParsed /\ StartsWith(tokens, head)
       /\ CompleteAlone(After(tokens, head))) =>
      /\ tree = Ok(Pipe(HeadExpr(head),
                        Catch(UnitLit, "e", parseExpr(After(tokens, head), 1, TopBp).expr)),
                   Len(tokens) + 1)
      /\ (mode = "done" /\ head = OkHead) =>
            /\ result = [kind |-> "value", value |-> IntV(2)]
            /\ applyCount = 0
            /\ fallbacks = <<>>

\* C29 witness:  Ok(2) |> catch e -> e |> g  was parsed to
\* Ok(2) |> (catch e -> (e |> g)) and evaluated to 2.
C29_Witness ==
  /\ tokens = OkHead \o <<tE, tPipe, tG, tEOF>>
  /\ tree = Ok(Pipe(OkE(IntLit(2)), Catch(UnitLit, "e", Pipe(Ident("e"), Ident("g")))), 13)
  /\ mode = "done"
  /\ result = [kind |-> "value", value |-> IntV(2)]

\* The expression an argument's tokens stand for.
ArgExpr(a) == parseExpr(a \o <<tEOF>>, 1, TopBp).expr

RECURSIVE Applied(_, _)
\* f applied to the first k arguments, one at a time.
Applied(args, k) ==
  IF k = 0 THEN Ident("f") ELSE Call(Applied(args, k - 1), ArgExpr(args[k]))

RECURSIVE CallNodes(_)
\* The application nodes on the function spine of a tree.
CallNodes(e) == IF e.kind = "Call" THEN 1 + CallNodes(e.fn) ELSE 0

FnExpr(fn) == parseExpr(fn \o <<tEOF>>, 1, TopBp).expr

\* C30: f(a1, ..., ak) parses to k nested single-argument applications,
\* ((f a1) a2) ... ak, for every k >= 0; f() is the tree of f.  Evaluating
\* let f = FN in f(2, ..., 2)  makes at most k applications, exactly k when
\* a value comes out, so f() does not run the body of  fn() -> 2 : its
\* value is the closure.
C30_CallNesting ==
  /\ \A k \in 0..MaxArgs : \A args \in [1..k -> ArgTokens] :
       (tree # NotParsed /\ tokens = CallOf(args) \o <<tEOF>>) =>
          /\ tree = Ok(Applied(args, k), Len(tokens) + 1)
          /\ CallNodes(tree.expr) = k
  /\ \A fn \in FnTokens :
       /\ \A k \in 0..MaxArgs :
            (tree # NotParsed /\ tokens = LetF(fn, CallOf(Twos(k))) \o <<tEOF>>) =>
               /\ tree = Ok(Let("f", FnExpr(fn), Applied(Twos(k), k)), Len(tokens) + 1)
               /\ applyCount <= k
               /\ (mode = "done" /\ result.kind = "value") => applyCount = k
               /\ (mode = "done" /\ k = 0) =>
                     result.kind = "value" /\ result.value.kind = "Closure"
       /\ (tree # NotParsed
              /\ tokens = LetF(fn, CallOf(<<>>) \o <<tLParen, tTwo, tRParen>>) \o <<tEOF>>) =>
            tree = Ok(Let("f", FnExpr(fn), Call(Ident("f"), IntLit(2))), Len(tokens) + 1)

\* C30 witness:  let f = fn() -> 2 in f()  was parsed to
\* let f = (fn _ -> 2) in f  and its value is the closure, with no
\* application made.
C30_Witness ==
  /\ tokens = LetF(<<tFn, tLParen, tRParen, tArrow, tTwo>>, CallOf(<<>>)) \o <<tEOF>>
  /\ tree = Ok(Let("f", Fn("_", IntLit(2)), Ident("f")), 14)
  /\ mode = "done"
  /\ result.kind = "value"
  /\ result.value.kind = "Closure"
  /\ applyCount = 0

(***************************************************************************)
(* Failed unification.                                                     *)
(***************************************************************************)
\* C28: a call of unify that throws leaves the substitution it was given
\* with exactly the bindings it had before the call.
C28_ThrowStep ==
  (ncalls' = ncalls + 1 /\ ~ucall'.ok) => subst' = subst

C28_FailedUnifyChangesNothing == [][C28_ThrowStep]_vars

(***************************************************************************)
(* The error parameter of a recovery binder.                               *)
(***************************************************************************)
\* runSource's inference returned a type: the program is accepted.
Accepted ==
  IF run = NoRun THEN FALSE
  ELSE run.entry = "runSource" /\ run.outcome.ok

\* C26: in a program the inferencer accepts, every evaluation of a
\* fallback has the binder's error parameter bound to a string value.
C26_ErrorParameterIsString ==
  Accepted =>
    \A j \in DOMAIN fallbacks :
      envs[fallbacks[j].env][fallbacks[j].name].kind = "String"

(***************************************************************************)
(* Properties of a REPL session                                            *)
(***************************************************************************)
\* A call of session.eval has returned.
Answered == IF run = NoRun THEN FALSE ELSE run.entry = "repl" /\ ~run.evaluating

\* The input just answered was entered when the session had accepted a
\* top-level let of x.
HadX == IF Answered THEN "x" \in DOMAIN run.before.values ELSE FALSE

\* C21: once a top-level `let x = value` has been accepted, x is bound to
\* that value in every later input, a plain expression (x) or another
\* top-level let (let y = x), until x is rebound.
C21_LetBindingsPersist ==
  (HadX /\ tokens \in {UseX \o <<tEOF>>, LetYX \o <<tEOF>>}) =>
    /\ result.kind = "value"
    /\ Reify(result.value, ReifyDepth) = run.before.values["x"]

\* The call of session.eval that just returned gave an error result.
Failed == Answered /\ result.kind \in {"error", "throws"}

\* C22: an input that fails leaves the value environment and the type
\* environment with exactly the bindings they had, closures included.
C22_FailedInputChangesNothing ==
  Failed => Snapshot = run.before
====
